---- MODULE Spec2Model ----
(***************************************************************************)
(* Document-conversion pipeline of the Retrieval-Framework repository:     *)
(*   - the content-addressable cache PdfProcessor.get_mathpix_pdf_id       *)
(*     (src/pdf_parser/pdf_processor.py) and its use by pool workers,      *)
(*   - the retry loop of process_pdf (src/process_inbox.py),               *)
(*   - MathpixProcessor.await_result (src/pdf_processor/core.py),          *)
(*   - get_latex_chunks (src/pdf_processor/latex_helpers.py) and the       *)
(*     reassembly of MathpixResultParser.parse_result,                     *)
(*   - MathpixProcessor.submit_pdf and MathpixPdfConverter.convert,        *)
(*   - process_directory (src/process_inbox.py) and its pool of tasks,     *)
(*   - the regex cleanup preprocess_regex / regex_preprocessing.           *)
(* Specifications:                                                         *)
(*   Spec        one process running process_pdf invocations in sequence   *)
(*               (config.parse_pdfs_num_workers = 1)                       *)
(*   SpecCache   NumWorkers pool workers running get_mathpix_pdf_id        *)
(*               concurrently on the work set of process_directory         *)
(*   SpecAwait   one await_result call                                     *)
(*   SpecParse   one parse_result call on a LaTeX source                   *)
(*   SpecConvert convert calls in sequence: submit_pdf, await_result,      *)
(*               parse_result                                              *)
(*   SpecBatch   one process_directory call, its tasks abstracted to       *)
(*               their outcome                                             *)
(*   SpecAgree   parse_result and the reassembly of pdf_to_txt on the      *)
(*               same LaTeX source                                         *)
(*   SpecClean   the regex cleanup applied to a joined string              *)
(*   SpecArchive one await_result call, the result kept by the caller and  *)
(*               handed to parse_result                                    *)
(*   SpecLookup  get_mathpix_pdf_id calls in sequence, each by a new       *)
(*               PdfProcessor, on files whose content may have changed     *)
(***************************************************************************)
EXTENDS Integers, Sequences, FiniteSets, TLC

(* ------------------------------ bounds -------------------------------- *)

\* pool workers of SpecCache (ProcessPoolExecutor max_workers)
NumWorkers == 2

\* process_pdf invocations made one after another in Spec
MaxRuns == 2

\* seconds one slow pdf_to_txt call may take (the fast one takes none)
SlowCall == 20

\* await_result is called with timeout_s in 0..MaxTimeout, sleep_s in 1..MaxSleep
MaxTimeout == 4
MaxSleep == 3

\* get_latex_chunks is given every well-formed LaTeX source of at most
\* MaxLen tokens
MaxLen == 6

\* MathpixPdfConverter.convert calls made one after another in SpecConvert
MaxConverts == 2

\* pieces of the strings the regex cleanup is applied to
MaxPieces == 3

\* get_mathpix_pdf_id calls of SpecLookup
MaxLookups == 3

(* ------------------------- program constants -------------------------- *)

\* config.PDF_PARSE_TIMEOUT, seconds
PDF_PARSE_TIMEOUT == 60

\* time.sleep(5) of the except branch of process_pdf
RetrySleep == 5

\* the defaults of await_result's timeout_s and sleep_s, seconds
DefaultTimeout == 60
DefaultSleep == 5

(* ------------------------------ values -------------------------------- *)

Workers == 1..NumWorkers

\* the PDFs of the library directory, and the byte contents they may have
Files == {"a.pdf", "b.pdf", "c.pdf"}
Contents == {"X", "Y"}

\* Python's None
None == <<>>

\* no PDF: a worker that was given no task yet
NoFile == "-"

\* Python's None for a chunk's filename, raw_content and processed_content,
\* and the empty string
NoStr == ""

\* no invocation on the PDF has used up its budget
NoExpiry == [run |-> 0, id |-> <<>>]

\* no download made yet
NoDownload == [kind |-> "none", conv |-> "none"]

\* hashlib.md5 over the whole byte stream, hexdigest: a digest of the content
\* alone (the path does not enter), taken collision free
_calculate_md5(bytes) == <<"md5", bytes>>

Hashes == {_calculate_md5(c) : c \in Contents}

\* the pdf_id the service gives to its n-th job
PdfId(n) == <<"pdf_id", n>>

\* what requests.post of _process_pdf_with_mathpix can end with: an OK answer
\* holding a pdf_id, a non-OK answer, or an exception (transport failure, or
\* an OK answer without 'pdf_id')
PostOutcomes == {"ok", "not_ok", "raise"}

VARIABLES
    content,    \* content[f]: the bytes of PDF f
    db,         \* the rows of table pdfs: [md5, filename, mathpix_pdf_id]
    posts,      \* posts[h]: POST requests made so far for content hash h
    jobs,       \* the service's jobs: jobs[n] is the hash of the n-th job's PDF
    pc,         \* pc[w]: where worker w is in get_mathpix_pdf_id
    task,       \* task[w]: the PDF worker w was called with
    mpid,       \* mpid[w]: local mathpix_pdf_id of worker w
    ret,        \* ret[w]: value returned by worker w's last call
    err,        \* err[w]: exception raised by worker w's last call
    begun,      \* begun[w]: number of finished calls when w's call started
    log,        \* finished calls, in the order they finished
    queue       \* PDFs submitted to the pool and not yet taken by a worker

cacheVars == <<content, db, posts, jobs, pc, task, mpid, ret, err, begun, log, queue>>

VARIABLES
    ppc,        \* where the process_pdf invocation is
    summarize,  \* its summarize argument
    pdf_id,     \* its local pdf_id
    elapsed,    \* time.time() - start_time
    attempts,   \* pdf_to_txt calls made by this invocation
    corrupt,    \* how many of them raised BadZipfile
    served,     \* what the last pdf_to_txt call met
    left,       \* how the while loop was left: "break" or "timeout"
    writes,     \* fulltext files written by this invocation
    perr,       \* the exception the invocation ended with
    runs,       \* process_pdf invocations started so far
    inbox,      \* PDFs in the library directory
    archive,    \* PDFs moved to the archive directory
    fulltext,   \* fulltext[f]: content of fulltext/<stem>.txt, or None
    summary,    \* summary[f]: content of summary/<stem>.txt, or None
    expired,    \* expired[f]: the invocation on f that last used up its budget
    llm,         \* table and image model calls made by this invocation
    processed_latex_string  \* pdf_to_txt's local string (followed in SpecAgree)

pipeVars == <<ppc, summarize, pdf_id, elapsed, attempts, corrupt, served, left, writes,
              perr, runs, inbox, archive, fulltext, summary, expired, llm,
              processed_latex_string>>

VARIABLES
    timeout_s,  \* await_result's argument: max wait time in seconds
    sleep_s,    \* await_result's argument: interval between status requests
    apc,        \* where await_result is
    clock,      \* time.time() - start_time (only time.sleep takes time)
    mr,         \* the MathpixResult: [pdf_id, zip_b64, zip_hash, error]
    polls,      \* status requests made
    downloads,  \* archive download requests made
    seen,       \* the answers the status requests got
    aexc        \* the exception await_result raised

awaitVars == <<timeout_s, sleep_s, apc, clock, mr, polls, downloads, seen, aexc>>

VARIABLES
    latex,      \* the LaTeX source of the archive's .tex file, a token sequence
    rpc,        \* where parse_result is
    chunks,     \* latex_chunks, processed_content filled in as the loop goes
    ci,         \* index of the chunk the loop is at
    pdf_result, \* the PdfResult: [raw_latex, content, text, tables, images]
    latex_str,  \* the joined text before the cleanup
    calls,      \* the model calls made: [model, chunk]
    rexc        \* the exception parse_result raised

parseVars == <<latex, rpc, chunks, ci, pdf_result, latex_str, calls, rexc>>

VARIABLES
    cpc,        \* where the MathpixPdfConverter.convert call is
    cfile,      \* the PDF it was called with
    subs,       \* the submissions that got a pdf_id: [md5, error] of the n-th
    cexc,       \* the exception convert or submit_pdf raised
    converts    \* convert calls started so far

convVars == <<cpc, cfile, subs, cexc, converts>>

VARIABLES
    work,       \* pdf_files, the work set of process_directory
    fut,        \* fut[f]: state of the future of process_pdf(f)
    dpc,        \* where process_directory is
    printed     \* the PDFs the as_completed loop has printed a line for

batchVars == <<work, fut, dpc, printed>>

vars == <<cacheVars, pipeVars, awaitVars, parseVars, convVars, batchVars>>

(* ------------------- PdfProcessor.get_mathpix_pdf_id ------------------- *)

\* CREATE TABLE IF NOT EXISTS pdfs (md5 TEXT PRIMARY KEY, ...): an existing
\* table keeps its rows
\* mutant of _initialize_db: the table is made anew
DropAndCreate(d) == {}

_initialize_db(d) == d

\* mutant of Fetchone: the row is looked up by hash and file name
FetchoneByName(d, h, name) ==
    {<<r.mathpix_pdf_id>> : r \in {x \in d : x.md5 = h /\ x.filename = name}}

\* mutant of Fetchone: the row is looked up by file name
FetchoneNameOnly(d, h, name) ==
    {<<r.mathpix_pdf_id>> : r \in {x \in d : x.filename = name}}

\* SELECT mathpix_pdf_id FROM pdfs WHERE md5 = ?, fetchone(): the 1-tuples
\* of the matching rows (a tuple (None,) is a row too, and is truthy)
Fetchone(d, h, name) == {<<r.mathpix_pdf_id>> : r \in {x \in d : x.md5 = h}}

\* mutant of PrimaryKeyFree: a row without job identifier does not count
PrimaryKeyNullable(d, h) == \A r \in d : r.md5 # h \/ r.mathpix_pdf_id = None

\* mutant of PrimaryKeyFree: the table has no key
NoPrimaryKey(d, h) == TRUE

\* the PRIMARY KEY constraint on md5: INSERT raises sqlite3.IntegrityError
\* when a row with that md5 exists
PrimaryKeyFree(d, h) == \A r \in d : r.md5 # h

\* mutant of InsertRow: the row is not written
InsertNothing(d, h, name, id) == d

\* INSERT INTO pdfs (md5, filename, mathpix_pdf_id) VALUES (?, ?, ?); commit
InsertRow(d, h, name, id) ==
    d \cup {[md5 |-> h, filename |-> name, mathpix_pdf_id |-> id]}

\* the record a finished call leaves in the history
CallRecord(w, h, hit, posted, status, id, exc) ==
    [worker |-> w, file |-> task[w], md5 |-> h, hit |-> hit, posted |-> posted,
     status |-> status, id |-> id, exc |-> exc, begun |-> begun[w]]

\* lines 44-54: hash the file, SELECT; a row found is returned at once
Select(w) ==
    /\ pc[w] = "call"
    /\ LET h == _calculate_md5(content[task[w]])
           result == Fetchone(db, h, task[w])
       IN IF result # {}
          THEN \E t \in result :
                /\ pc' = [pc EXCEPT ![w] = "returned"]
                /\ ret' = [ret EXCEPT ![w] = t[1]]
                /\ log' = Append(log, CallRecord(w, h, TRUE, FALSE, "returned", t[1], "none"))
          ELSE /\ pc' = [pc EXCEPT ![w] = "miss"]
               /\ UNCHANGED <<ret, log>>
    /\ UNCHANGED <<content, db, posts, jobs, task, mpid, err, begun, queue>>
    /\ UNCHANGED <<pipeVars, awaitVars, parseVars, convVars, batchVars>>

\* lines 58, 74-98: _process_pdf_with_mathpix posts the file; r.ok gives the
\* pdf_id of a new job, a non-OK answer gives None, an exception propagates
Post(w) ==
    /\ pc[w] = "miss"
    /\ LET h == _calculate_md5(content[task[w]])
       IN /\ posts' = [posts EXCEPT ![h] = @ + 1]
          /\ \E o \in PostOutcomes :
               \/ /\ o = "ok"
                  /\ jobs' = Append(jobs, h)
                  /\ mpid' = [mpid EXCEPT ![w] = PdfId(Len(jobs) + 1)]
                  /\ pc' = [pc EXCEPT ![w] = "posted"]
                  /\ UNCHANGED <<err, log>>
               \/ /\ o = "not_ok"
                  /\ mpid' = [mpid EXCEPT ![w] = None]
                  /\ pc' = [pc EXCEPT ![w] = "posted"]
                  /\ UNCHANGED <<jobs, err, log>>
               \/ /\ o = "raise"
                  /\ pc' = [pc EXCEPT ![w] = "raised"]
                  /\ err' = [err EXCEPT ![w] = "RequestException"]
                  /\ log' = Append(log, CallRecord(w, h, FALSE, TRUE, "raised", None,
                                                   "RequestException"))
                  /\ UNCHANGED <<jobs, mpid>>
    /\ UNCHANGED <<content, db, task, ret, begun, queue>>
    /\ UNCHANGED <<pipeVars, awaitVars, parseVars, convVars, batchVars>>

\* lines 59-63: INSERT, commit, return mathpix_pdf_id
Insert(w) ==
    /\ pc[w] = "posted"
    /\ LET h == _calculate_md5(content[task[w]])
       IN IF PrimaryKeyFree(db, h)
          THEN /\ db' = InsertRow(db, h, task[w], mpid[w])
               /\ pc' = [pc EXCEPT ![w] = "returned"]
               /\ ret' = [ret EXCEPT ![w] = mpid[w]]
               /\ log' = Append(log, CallRecord(w, h, FALSE, TRUE, "returned", mpid[w], "none"))
               /\ UNCHANGED err
          ELSE /\ pc' = [pc EXCEPT ![w] = "raised"]
               /\ err' = [err EXCEPT ![w] = "IntegrityError"]
               /\ log' = Append(log, CallRecord(w, h, FALSE, TRUE, "raised", None,
                                                "IntegrityError"))
               /\ UNCHANGED <<db, ret>>
    /\ UNCHANGED <<content, posts, jobs, task, mpid, begun, queue>>
    /\ UNCHANGED <<pipeVars, awaitVars, parseVars, convVars, batchVars>>

(* ----------------- process_directory: the worker pool ------------------ *)

\* lines 57-59: a free pool worker takes a submitted task; process_pdf builds
\* a PdfProcessor (lines 22-23) and calls get_mathpix_pdf_id
Dispatch(w) ==
    /\ pc[w] \in {"idle", "returned", "raised"}
    /\ \E f \in queue :
        /\ queue' = queue \ {f}
        /\ task' = [task EXCEPT ![w] = f]
    /\ db' = _initialize_db(db)
    /\ pc' = [pc EXCEPT ![w] = "call"]
    /\ begun' = [begun EXCEPT ![w] = Len(log)]
    /\ UNCHANGED <<content, posts, jobs, mpid, ret, err, log>>
    /\ UNCHANGED <<pipeVars, awaitVars, parseVars, convVars, batchVars>>

InitCacheVars ==
    /\ content \in [Files -> Contents]
    /\ db = {}
    /\ posts = [h \in Hashes |-> 0]
    /\ jobs = <<>>
    /\ pc = [w \in Workers |-> "idle"]
    /\ task = [w \in Workers |-> NoFile]
    /\ mpid = [w \in Workers |-> None]
    /\ ret = [w \in Workers |-> None]
    /\ err = [w \in Workers |-> "none"]
    /\ begun = [w \in Workers |-> 0]
    /\ log = <<>>

InitPipeVars ==
    /\ ppc = "idle"
    /\ summarize = TRUE
    /\ pdf_id = None
    /\ elapsed = 0
    /\ attempts = 0
    /\ corrupt = 0
    /\ served = NoDownload
    /\ left = "none"
    /\ writes = 0
    /\ perr = "none"
    /\ runs = 0
    /\ inbox = Files
    /\ archive = {}
    /\ fulltext = [f \in Files |-> None]
    /\ summary = [f \in Files |-> None]
    /\ expired = [f \in Files |-> NoExpiry]
    /\ llm = 0
    /\ processed_latex_string = NoStr


(* ----------------------------- process_pdf ----------------------------- *)

\* what one pdf_to_txt call can meet: GET <pdf_id>.tex gets no answer, bytes
\* that are no zip archive, an archive without a .tex entry, an archive whose
\* .tex names an image that is not in it, or a complete archive; with a
\* complete archive the table and image model calls all answer ("ok") or one
\* of them fails ("fail")
Downloads ==
    {[kind |-> "unreachable", conv |-> "none"], [kind |-> "corrupt", conv |-> "none"],
     [kind |-> "no_tex", conv |-> "none"], [kind |-> "no_image", conv |-> "none"],
     [kind |-> "good", conv |-> "ok"], [kind |-> "good", conv |-> "fail"]}

\* the model calls of summarize_file answer or fail
ModelOutcomes == {"ok", "fail"}

\* seconds a pdf_to_txt call takes
Durations == {0, SlowCall}

NoTexMessage == <<"No .tex file found in the zip archive.">>

\* the .tex file of the job's archive holds a table and, after it, an image:
\* the pieces of lines 135-149 that take a model call, and the model calls
\* made before the image is read from the archive (line 140)
NonTextPieces == 2
TablesBeforeImage == 1

\* the text pdf_to_txt builds from the complete archive of job id
FinalText(id) == <<"text", id>>

\* PdfProcessor.pdf_to_txt, lines 101-159: the value returned or the exception
\* raised for a pdf_id and what the call meets
pdf_to_txt(id, got) ==
    IF id = None THEN [raise |-> "TypeError", text |-> None, calls |-> 0]
    ELSE IF got.kind = "unreachable"
    THEN [raise |-> "RequestException", text |-> None, calls |-> 0]
    ELSE IF got.kind = "corrupt" THEN [raise |-> "BadZipFile", text |-> None, calls |-> 0]
    ELSE IF got.kind = "no_tex" THEN [raise |-> "none", text |-> NoTexMessage, calls |-> 0]
    ELSE IF got.kind = "no_image"
    THEN [raise |-> "KeyError", text |-> None, calls |-> TablesBeforeImage]
    ELSE IF got.conv = "fail" THEN [raise |-> "ModelError", text |-> None, calls |-> 1]
    ELSE [raise |-> "none", text |-> FinalText(id), calls |-> NonTextPieces]

\* mutant of Caught: the loop catches every exception
CaughtAll(exc) == TRUE

\* mutant of Caught: the loop also catches the KeyError of a missing member
CaughtKeyError(exc) == exc \in {"BadZipFile", "KeyError"}

\* except zipfile.BadZipfile (line 38): the one exception the loop catches
Caught(exc) == exc = "BadZipFile"

\* mutant of WriteText: the text is not written
WriteNothing(ft, f, text) == ft

\* lines 33-34: open(fulltext/<stem>.txt, "w"), write(text)
WriteText(ft, f, text) == [ft EXCEPT ![f] = text]

\* the file process_pdf was called with (the process is pool worker 1)
Pdf == task[1]

\* lines 19-23: a process_pdf invocation starts on a PDF of the library; it
\* builds a PdfProcessor and calls get_mathpix_pdf_id
StartProcessPdf ==
    /\ ppc \in {"idle", "returned", "raised"}
    /\ runs < MaxRuns
    /\ \E f \in inbox, s \in BOOLEAN :
        /\ task' = [task EXCEPT ![1] = f]
        /\ summarize' = s
    /\ db' = _initialize_db(db)
    /\ pc' = [pc EXCEPT ![1] = "call"]
    /\ begun' = [begun EXCEPT ![1] = Len(log)]
    /\ ppc' = "getid"
    /\ runs' = runs + 1
    /\ pdf_id' = None
    /\ elapsed' = 0
    /\ attempts' = 0
    /\ corrupt' = 0
    /\ served' = NoDownload
    /\ left' = "none"
    /\ writes' = 0
    /\ perr' = "none"
    /\ llm' = 0
    /\ UNCHANGED <<content, posts, jobs, mpid, ret, err, log, queue>>
    /\ UNCHANGED <<inbox, archive, fulltext, summary, expired, processed_latex_string>>
    /\ UNCHANGED <<awaitVars, parseVars, convVars, batchVars>>

\* lines 23-28: get_mathpix_pdf_id returned; start_time = time.time()
GotId ==
    /\ ppc = "getid"
    /\ pc[1] = "returned"
    /\ pdf_id' = ret[1]
    /\ elapsed' = 0
    /\ ppc' = "loop"
    /\ pc' = [pc EXCEPT ![1] = "idle"]
    /\ UNCHANGED <<content, db, posts, jobs, task, mpid, ret, err, begun, log, queue>>
    /\ UNCHANGED <<summarize, attempts, corrupt, served, left, writes, perr, runs,
                   inbox, archive, fulltext, summary, expired, llm,
                   processed_latex_string>>
    /\ UNCHANGED <<awaitVars, parseVars, convVars, batchVars>>

\* line 23: get_mathpix_pdf_id raised, and process_pdf with it
GetIdRaised ==
    /\ ppc = "getid"
    /\ pc[1] = "raised"
    /\ ppc' = "raised"
    /\ perr' = err[1]
    /\ pc' = [pc EXCEPT ![1] = "idle"]
    /\ UNCHANGED <<content, db, posts, jobs, task, mpid, ret, err, begun, log, queue>>
    /\ UNCHANGED <<summarize, pdf_id, elapsed, attempts, corrupt, served, left, writes,
                   runs, inbox, archive, fulltext, summary, expired, llm,
                   processed_latex_string>>
    /\ UNCHANGED <<awaitVars, parseVars, convVars, batchVars>>

\* mutant of LoopCondition: a turn starts when the budget is just used up
LoopConditionLate(e) == e <= PDF_PARSE_TIMEOUT

\* line 30: while time.time() - start_time < timeout
LoopCondition(e) == e < PDF_PARSE_TIMEOUT

\* lines 30-39, one turn of the while loop: pdf_to_txt; on a text, write it,
\* move the PDF and break; on BadZipfile, sleep 5 s; another exception leaves
AttemptConversion ==
    /\ ppc = "loop"
    /\ LoopCondition(elapsed)
    /\ \E got \in Downloads, d \in Durations :
        LET out == pdf_to_txt(pdf_id, got)
        IN /\ attempts' = attempts + 1
           /\ served' = got
           /\ llm' = llm + out.calls
           /\ IF out.raise = "none"
              THEN /\ fulltext' = WriteText(fulltext, Pdf, out.text)
                   /\ writes' = writes + 1
                   /\ inbox' = inbox \ {Pdf}
                   /\ archive' = archive \cup {Pdf}
                   /\ elapsed' = elapsed + d
                   /\ left' = "break"
                   /\ ppc' = "after"
                   /\ UNCHANGED <<corrupt, perr>>
              ELSE IF Caught(out.raise)
              THEN /\ corrupt' = corrupt + 1
                   /\ elapsed' = elapsed + d + RetrySleep
                   /\ UNCHANGED <<ppc, left, perr, fulltext, writes, inbox, archive>>
              ELSE /\ ppc' = "raised"
                   /\ perr' = out.raise
                   /\ elapsed' = elapsed + d
                   /\ UNCHANGED <<corrupt, left, fulltext, writes, inbox, archive>>
    /\ UNCHANGED <<cacheVars, awaitVars, parseVars, convVars, batchVars>>
    /\ UNCHANGED <<summarize, pdf_id, runs, summary, expired, processed_latex_string>>

\* line 30: the loop condition fails, the budget is used up
LeaveLoop ==
    /\ ppc = "loop"
    /\ ~LoopCondition(elapsed)
    /\ left' = "timeout"
    /\ expired' = [expired EXCEPT ![Pdf] = [run |-> runs, id |-> pdf_id]]
    /\ ppc' = "after"
    /\ UNCHANGED <<cacheVars, awaitVars, parseVars, convVars, batchVars>>
    /\ UNCHANGED <<summarize, pdf_id, elapsed, attempts, corrupt, served, writes, perr,
                   runs, inbox, archive, fulltext, summary, llm, processed_latex_string>>

\* lines 41-44: summarize_file reads fulltext/<stem>.txt (open fails when the
\* file is not there), asks the model and writes the summary; then return
SummarizeAndReturn ==
    /\ ppc = "after"
    /\ IF ~summarize
       THEN /\ ppc' = "returned"
            /\ UNCHANGED <<perr, summary>>
       ELSE IF fulltext[Pdf] = None
       THEN /\ ppc' = "raised"
            /\ perr' = "FileNotFoundError"
            /\ UNCHANGED summary
       ELSE \E o \in ModelOutcomes :
            IF o = "ok"
            THEN /\ summary' = [summary EXCEPT ![Pdf] = <<"summary", fulltext[Pdf]>>]
                 /\ ppc' = "returned"
                 /\ UNCHANGED perr
            ELSE /\ ppc' = "raised"
                 /\ perr' = "SummaryModelError"
                 /\ UNCHANGED summary
    /\ UNCHANGED <<cacheVars, awaitVars, parseVars, convVars, batchVars>>
    /\ UNCHANGED <<summarize, pdf_id, elapsed, attempts, corrupt, served, left, writes,
                   runs, inbox, archive, fulltext, expired, llm, processed_latex_string>>


(* -------------------- MathpixProcessor.await_result -------------------- *)

\* what a status request can get: an OK answer with a status that is neither
\* 'completed' nor 'error', with 'completed', with 'error'; a non-OK answer;
\* no answer (requests.get raises)
PollAnswers == {"processing", "completed", "error", "http_error", "unreachable"}

\* what the download request can get: the bytes of an archive (with a .tex
\* file, or without one), other bytes, the body of a non-OK answer; no answer
Bodies == {"zip_a", "zip_b", "zip_no_tex", "junk", "not_ok_body"}
DownloadAnswers == Bodies \cup {"unreachable"}

\* hashlib.sha256(bytes).hexdigest(), taken collision free
Sha256(bytes) == <<"sha256", bytes>>

\* mutant of B64Decode: the decoding loses the bytes
B64DecodeLossy(str) == "junk"

\* base64.b64encode(bytes).decode("utf-8") and base64.b64decode
B64Encode(bytes) == <<"b64", bytes>>
B64Decode(str) == str[2]

TimeoutMessage == <<"Processing has exceeded timeout_s limit.">>
ServerErrorMessage == <<"An error occurred during processing on the server side.">>
StaleError == <<"an error of an earlier step">>

\* mutant of HandlerOutcome: the clause catches the exception
HandlerCatches(exc) == exc

\* lines 130, 180, 194, `except requests.exceptions as e`: requests.exceptions
\* is a module, and matching a raised exception against anything but an
\* exception class raises TypeError in place of the exception
HandlerOutcome(exc) == "TypeError"

\* line 156: time.time() - start_time > timeout_s
TimedOut(c, t) == c > t

\* mutant of AfterSleep: the loop sleeps twice per turn
AfterSleepTwice(c, s) == c + s + s

\* line 183: time.sleep(sleep_s)
AfterSleep(c, s) == c + s

\* mutant of HasError: the error is not looked at after the loop
NeverHasError(r) == FALSE

\* line 185: if mathpix_result.error
HasError(r) == r.error # None

\* lines 149-154: an error the result came in with is dropped; the loop starts
AwaitEntry ==
    /\ apc = "entry"
    /\ mr' = [mr EXCEPT !.error = None]
    /\ clock' = 0
    /\ apc' = "loop"
    /\ UNCHANGED <<timeout_s, sleep_s, polls, downloads, seen, aexc>>
    /\ UNCHANGED <<cacheVars, pipeVars, parseVars, convVars, batchVars>>

\* lines 156-158: the time is up; the error is set and the loop left
PollTimeout ==
    /\ apc = "loop"
    /\ TimedOut(clock, timeout_s)
    /\ mr' = [mr EXCEPT !.error = TimeoutMessage]
    /\ apc' = "after"
    /\ UNCHANGED <<timeout_s, sleep_s, clock, polls, downloads, seen, aexc>>
    /\ UNCHANGED <<cacheVars, pipeVars, parseVars, convVars, batchVars>>

\* lines 160-183, one turn of the loop: the status request and what follows.
\* A non-OK answer makes raise_for_status raise HTTPError; matching it against
\* `except requests.exceptions` (a module, not an exception class) raises
\* TypeError, which leaves await_result
Poll ==
    /\ apc = "loop"
    /\ ~TimedOut(clock, timeout_s)
    /\ polls' = polls + 1
    /\ \E a \in PollAnswers :
        /\ seen' = seen \cup {a}
        /\ \/ /\ a = "processing"
              /\ clock' = AfterSleep(clock, sleep_s)
              /\ UNCHANGED <<apc, mr, aexc>>
           \/ /\ a = "completed"
              /\ apc' = "after"
              /\ UNCHANGED <<clock, mr, aexc>>
           \/ /\ a = "error"
              /\ mr' = [mr EXCEPT !.error = ServerErrorMessage]
              /\ apc' = "after"
              /\ UNCHANGED <<clock, aexc>>
           \/ /\ a = "http_error"
              /\ LET h == HandlerOutcome("HTTPError")
                 IN IF h = "TypeError"
                    THEN /\ apc' = "raised"
                         /\ aexc' = h
                         /\ UNCHANGED <<clock, mr>>
                    ELSE /\ mr' = [mr EXCEPT !.error = <<h>>]
                         /\ clock' = AfterSleep(clock, sleep_s)
                         /\ UNCHANGED <<apc, aexc>>
           \/ /\ a = "unreachable"
              /\ apc' = "raised"
              /\ aexc' = "RequestException"
              /\ UNCHANGED <<clock, mr>>
    /\ UNCHANGED <<timeout_s, sleep_s, downloads>>
    /\ UNCHANGED <<cacheVars, pipeVars, parseVars, convVars, batchVars>>

\* lines 185-186: a result with an error is returned as it is
ReturnError ==
    /\ apc = "after"
    /\ HasError(mr)
    /\ apc' = "done"
    /\ UNCHANGED <<timeout_s, sleep_s, clock, mr, polls, downloads, seen, aexc>>
    /\ UNCHANGED <<cacheVars, pipeVars, parseVars, convVars, batchVars>>

\* lines 188-198: the download request; the body of whatever answer comes is
\* hashed and encoded; a failing request ends in the same except clause
Download ==
    /\ apc = "after"
    /\ ~HasError(mr)
    /\ downloads' = downloads + 1
    /\ \E a \in DownloadAnswers :
        IF a = "unreachable"
        THEN /\ apc' = "raised"
             /\ aexc' = "TypeError"
             /\ UNCHANGED mr
        ELSE /\ mr' = [mr EXCEPT !.zip_hash = Sha256(a), !.zip_b64 = B64Encode(a)]
             /\ apc' = "done"
             /\ UNCHANGED aexc
    /\ UNCHANGED <<timeout_s, sleep_s, clock, polls, seen>>
    /\ UNCHANGED <<cacheVars, pipeVars, parseVars, convVars, batchVars>>

InitAwaitVars ==
    /\ apc = "entry"
    /\ clock = 0
    /\ mr \in [pdf_id : {PdfId(1)}, zip_b64 : {None}, zip_hash : {None},
               error : {None, StaleError}]
    /\ polls = 0
    /\ downloads = 0
    /\ seen = {}
    /\ aexc = "none"


(* ------------------ get_latex_chunks (latex_helpers.py) ----------------- *)

\* A LaTeX source is a sequence of tokens; offsets count tokens. The tokens
\* with a meaning to the walker:
Open == "{"
Close == "}"
BeginTabular == "\\begin{tabular}"
EndTabular == "\\end{tabular}"
BeginCenter == "\\begin{center}"
EndCenter == "\\end{center}"
IncludeGraphics == "\\includegraphics"

\* the well-formed sources of n tokens: sequences of characters, brace groups,
\* tabular and center environments, and \includegraphics with a braced argument
RECURSIVE NodesOfLen(_), DocsOfLen(_)
NodesOfLen(n) ==
    IF n = 1 THEN {<<"a">>}
    ELSE {<<Open>> \o d \o <<Close>> : d \in DocsOfLen(n - 2)}
         \cup {<<BeginTabular>> \o d \o <<EndTabular>> : d \in DocsOfLen(n - 2)}
         \cup {<<BeginCenter>> \o d \o <<EndCenter>> : d \in DocsOfLen(n - 2)}
         \cup (IF n >= 3
               THEN {<<IncludeGraphics, Open>> \o d \o <<Close>> : d \in DocsOfLen(n - 3)}
               ELSE {})

DocsOfLen(n) ==
    IF n = 0 THEN {<<>>}
    ELSE UNION {{x \o d : x \in NodesOfLen(k), d \in DocsOfLen(n - k)} : k \in 1..n}

\* the source of the end-to-end scenario:
\* Intro text. \begin{tabular}{c}1\end{tabular} More text.
ExampleSource ==
    <<"Intro text. ", BeginTabular, Open, "c", Close, "1", EndTabular, " More text.">>

Sources == UNION {DocsOfLen(n) : n \in 0..MaxLen} \cup {ExampleSource}

\* a node of pylatexenc's LatexWalker: pos and len are its span in the source
Node(kind, name, pos, len, chars, nodelist, nodeargs) ==
    [kind |-> kind, name |-> name, pos |-> pos, len |-> len, chars |-> chars,
     nodelist |-> nodelist, nodeargs |-> nodeargs]

CloserOf(tok) ==
    IF tok = Open THEN Close ELSE IF tok = BeginTabular THEN EndTabular ELSE EndCenter

\* LatexWalker(latex_str).get_latex_nodes(): the nodes from token i on, up to
\* the closing token of the enclosing group or environment
RECURSIVE ParseNodes(_, _, _), ParseNode(_, _)
ParseNodes(s, i, closer) ==
    IF i > Len(s) THEN [nodes |-> <<>>, next |-> i]
    ELSE IF s[i] = closer THEN [nodes |-> <<>>, next |-> i + 1]
    ELSE LET n == ParseNode(s, i)
             rest == ParseNodes(s, n.next, closer)
         IN [nodes |-> <<n.node>> \o rest.nodes, next |-> rest.next]

ParseNode(s, i) ==
    IF s[i] = Open
    THEN LET r == ParseNodes(s, i + 1, Close)
         IN [node |-> Node("group", "", i - 1, r.next - i, "", r.nodes, <<>>),
             next |-> r.next]
    ELSE IF s[i] \in {BeginTabular, BeginCenter}
    THEN LET r == ParseNodes(s, i + 1, CloserOf(s[i]))
         IN [node |-> Node("environment",
                           IF s[i] = BeginTabular THEN "tabular" ELSE "center",
                           i - 1, r.next - i, "", r.nodes, <<>>),
             next |-> r.next]
    ELSE IF s[i] = IncludeGraphics /\ i < Len(s) /\ s[i + 1] = Open
    THEN LET g == ParseNode(s, i + 1)
         IN [node |-> Node("macro", "includegraphics", i - 1, 1 + g.node.len, "",
                           <<>>, <<g.node>>),
             next |-> g.next]
    ELSE [node |-> Node("chars", "", i - 1, 1, s[i], <<>>, <<>>), next |-> i + 1]

get_latex_nodes(s) == ParseNodes(s, 1, "").nodes

\* LatexChunk(start, end, type, filename)
LatexChunk(start, end, type, filename) ==
    [start |-> start, end |-> end, type |-> type, filename |-> filename,
     raw_content |-> <<>>, processed_content |-> NoStr, converted |-> NoStr]

\* line 69, node.nodeargs[0].nodelist[0].chars: there is such a thing
HasFilename(n) ==
    /\ n.nodeargs # <<>>
    /\ n.nodeargs[1].nodelist # <<>>
    /\ n.nodeargs[1].nodelist[1].kind = "chars"

\* mutant of IsTabular: every environment is taken for a table
AnyEnvironment(n) == n.kind = "environment"

IsTabular(n) == n.kind = "environment" /\ n.name = "tabular"
IsImage(n) == n.kind = "macro" /\ n.name = "includegraphics"

\* lines 57-80, extract_chunks: the table and image chunks in document order;
\* groups and other environments are searched, tables and images are not
RECURSIVE extract_chunks(_)
extract_chunks(nodes) ==
    IF nodes = <<>> THEN <<>>
    ELSE LET n == Head(nodes)
             here == IF IsTabular(n)
                     THEN <<LatexChunk(n.pos, n.pos + n.len, "table", NoStr)>>
                     ELSE IF IsImage(n)
                     THEN <<LatexChunk(n.pos, n.pos + n.len, "image",
                                       IF HasFilename(n)
                                       THEN n.nodeargs[1].nodelist[1].chars
                                       ELSE NoStr)>>
                     ELSE IF n.kind \in {"group", "environment"}
                     THEN extract_chunks(n.nodelist)
                     ELSE <<>>
         IN here \o extract_chunks(Tail(nodes))

\* line 69 raises (IndexError, AttributeError) at an image macro reached by
\* extract_chunks whose argument does not start with characters
RECURSIVE ExtractRaises(_)
ExtractRaises(nodes) ==
    /\ nodes # <<>>
    /\ LET n == Head(nodes)
       IN \/ IsImage(n) /\ ~HasFilename(n)
          \/ ~IsTabular(n) /\ ~IsImage(n) /\ n.kind \in {"group", "environment"}
               /\ ExtractRaises(n.nodelist)
          \/ ExtractRaises(Tail(nodes))

\* mutant of FillGaps: the text after the last table or image is forgotten
RECURSIVE FillGapsNoTail(_, _, _)
FillGapsNoTail(found, last_pos, n) ==
    IF found = <<>> THEN <<>>
    ELSE LET c == Head(found)
         IN (IF last_pos < c.start
             THEN <<LatexChunk(last_pos, c.start, "text", NoStr)>> ELSE <<>>)
            \o <<c>> \o FillGapsNoTail(Tail(found), c.end, n)

\* lines 86-109: a text chunk for every gap before, between and after the
\* table and image chunks; n is len(latex_str)
RECURSIVE FillGaps(_, _, _)
FillGaps(found, last_pos, n) ==
    IF found = <<>>
    THEN IF last_pos < n THEN <<LatexChunk(last_pos, n, "text", NoStr)>> ELSE <<>>
    ELSE LET c == Head(found)
         IN (IF last_pos < c.start
             THEN <<LatexChunk(last_pos, c.start, "text", NoStr)>> ELSE <<>>)
            \o <<c>> \o FillGaps(Tail(found), c.end, n)

\* mutant of RawContent: the slice stops one short
RawContentShort(s, start, end) == SubSeq(s, start + 1, end - 1)

\* line 113: latex_str[chunk.start:chunk.end]
RawContent(s, start, end) == SubSeq(s, start + 1, end)

\* lines 47-115
get_latex_chunks(s) ==
    LET all == FillGaps(extract_chunks(get_latex_nodes(s)), 0, Len(s))
    IN [k \in 1..Len(all) |->
          [all[k] EXCEPT !.raw_content = RawContent(s, all[k].start, all[k].end)]]

\* the characters of a token sequence, as one string
RECURSIVE Str(_)
Str(seq) == IF seq = <<>> THEN "" ELSE Head(seq) \o Str(Tail(seq))

(* ------------------ MathpixResultParser.parse_result ------------------- *)

IMAGE_START_DELIMITER == "\n<===IMAGE START===>\n"
IMAGE_END_DELIMITER == "\n<===IMAGE END===>\n"
TABLE_START_DELIMITER == "\n<===TABLE START===>\n"
TABLE_END_DELIMITER == "\n<===TABLE END===>\n"

\* what the text model and the vision model answer
TableAnswers == {"Col: 1"}
ImageAnswers == {"A plot."}
ModelFails == "<model call failed>"
ImageMissing == "<image not in archive>"

\* lines 244-246: the f-string of a table chunk
TableProcessed(out) == TABLE_START_DELIMITER \o "\n" \o out \o "\n" \o TABLE_END_DELIMITER

\* lines 252-254: the f-string of an image chunk
ImageProcessed(out) == IMAGE_START_DELIMITER \o "\n" \o out \o "\n" \o IMAGE_END_DELIMITER

\* line 260: "".join([chunk.processed_content for chunk in latex_chunks])
RECURSIVE JoinProcessed(_)
JoinProcessed(cs) ==
    IF cs = <<>> THEN "" ELSE Head(cs).processed_content \o JoinProcessed(Tail(cs))

\* mutant of convert_table: a second request is made for the table
convert_table_again(made, k) ==
    made \o <<[model |-> "text", chunk |-> k], [model |-> "text", chunk |-> k]>>

\* convert_table, lines 283-292: one chat request to the text model for the
\* table of chunk k; made is the requests made so far
convert_table(made, k) == Append(made, [model |-> "text", chunk |-> k])

\* convert_image, lines 268-281: one chat request to the vision model
convert_image(made, k) == Append(made, [model |-> "vision", chunk |-> k])

\* lines 232-237: the .tex file is read and cut into chunks; a malformed
\* image macro makes get_latex_chunks raise
ParseStart ==
    /\ rpc = "start"
    /\ IF ExtractRaises(get_latex_nodes(latex))
       THEN /\ rpc' = "raised"
            /\ rexc' = "MalformedInput"
            /\ UNCHANGED <<chunks, ci, pdf_result>>
       ELSE /\ chunks' = get_latex_chunks(latex)
            /\ ci' = 1
            /\ pdf_result' = [pdf_result EXCEPT !.raw_latex = latex]
            /\ rpc' = "convert"
            /\ UNCHANGED rexc
    /\ UNCHANGED <<latex, latex_str, calls>>
    /\ UNCHANGED <<cacheVars, pipeVars, awaitVars, convVars, batchVars>>

\* mutant of Collect: every chunk is appended to the text collection
CollectAsText(res, c) == [res EXCEPT !.text = Append(@, c)]

\* lines 241, 246 and 254: the chunk is appended to the collection of the case
\* of the match statement that handled it
Collect(res, c) ==
    IF c.type = "text" THEN [res EXCEPT !.text = Append(@, c)]
    ELSE IF c.type = "table" THEN [res EXCEPT !.tables = Append(@, c)]
    ELSE [res EXCEPT !.images = Append(@, c)]

\* lines 238-257, one turn of the loop over latex_chunks
ConvertChunk ==
    /\ rpc = "convert"
    /\ ci <= Len(chunks)
    /\ LET c == chunks[ci]
           Done(out, text) == [c EXCEPT !.processed_content = text, !.converted = out]
       IN \/ /\ c.type = "text"
             /\ chunks' = [chunks EXCEPT ![ci] = Done(NoStr, Str(c.raw_content))]
             /\ pdf_result' = Collect(pdf_result, chunks'[ci])
             /\ ci' = ci + 1
             /\ UNCHANGED <<rpc, rexc, calls>>
          \/ /\ c.type = "table"
             /\ calls' = convert_table(calls, ci)
             /\ \E out \in TableAnswers \cup {ModelFails} :
                  IF out = ModelFails
                  THEN /\ rpc' = "raised"
                       /\ rexc' = "ModelError"
                       /\ UNCHANGED <<chunks, pdf_result, ci>>
                  ELSE /\ chunks' = [chunks EXCEPT ![ci] = Done(out, TableProcessed(out))]
                       /\ pdf_result' = Collect(pdf_result, chunks'[ci])
                       /\ ci' = ci + 1
                       /\ UNCHANGED <<rpc, rexc>>
          \/ /\ c.type = "image"
             /\ \E out \in ImageAnswers \cup {ModelFails, ImageMissing} :
                  IF out = ImageMissing
                  THEN /\ rpc' = "raised"
                       /\ rexc' = "KeyError"
                       /\ UNCHANGED <<chunks, pdf_result, ci, calls>>
                  ELSE /\ calls' = convert_image(calls, ci)
                       /\ IF out = ModelFails
                          THEN /\ rpc' = "raised"
                               /\ rexc' = "ModelError"
                               /\ UNCHANGED <<chunks, pdf_result, ci>>
                          ELSE /\ chunks' = [chunks EXCEPT
                                               ![ci] = Done(out, ImageProcessed(out))]
                               /\ pdf_result' = Collect(pdf_result, chunks'[ci])
                               /\ ci' = ci + 1
                               /\ UNCHANGED <<rpc, rexc>>
    /\ UNCHANGED <<latex, latex_str>>
    /\ UNCHANGED <<cacheVars, pipeVars, awaitVars, convVars, batchVars>>

\* line 260: the chunks' processed content is joined
Join ==
    /\ rpc = "convert"
    /\ ci > Len(chunks)
    /\ latex_str' = JoinProcessed(chunks)
    /\ rpc' = "joined"
    /\ UNCHANGED <<latex, chunks, ci, pdf_result, calls, rexc>>
    /\ UNCHANGED <<cacheVars, pipeVars, awaitVars, convVars, batchVars>>

\* lines 261-266: preprocess_regex, LatexNodes2Text and postprocess_regex turn
\* the joined text into the content of the result
Cleanup ==
    /\ rpc = "joined"
    /\ pdf_result' = [pdf_result EXCEPT !.content = <<"cleaned", latex_str>>]
    /\ rpc' = "done"
    /\ UNCHANGED <<latex, chunks, ci, latex_str, calls, rexc>>
    /\ UNCHANGED <<cacheVars, pipeVars, awaitVars, convVars, batchVars>>

InitParseVars ==
    /\ rpc = "start"
    /\ chunks = <<>>
    /\ ci = 0
    /\ pdf_result = [raw_latex |-> <<>>, content |-> None, text |-> <<>>,
                     tables |-> <<>>, images |-> <<>>]
    /\ latex_str = NoStr
    /\ calls = <<>>
    /\ rexc = "none"

\* no convert call was made
ConvertIdle ==
    /\ cpc = "idle"
    /\ cfile = NoFile
    /\ subs = <<>>
    /\ cexc = <<"none", "none">>
    /\ converts = 0

\* process_directory was not called
BatchIdle ==
    /\ work = {}
    /\ fut = [f \in Files |-> "none"]
    /\ dpc = "idle"
    /\ printed = {}

\* parse_result is not running: the other specifications leave it alone
ParseIdle ==
    /\ latex = <<>>
    /\ InitParseVars

\* await_result is not running: the other specifications leave it alone
AwaitIdle ==
    /\ timeout_s = 0
    /\ sleep_s = 1
    /\ InitAwaitVars
    /\ mr.error = None

\* no pool and no process_pdf invocation is running
PipelineIdle ==
    /\ InitCacheVars
    /\ content = [f \in Files |-> "X"]
    /\ queue = {}
    /\ InitPipeVars

InitParse ==
    /\ latex \in Sources
    /\ InitParseVars
    /\ AwaitIdle
    /\ PipelineIdle
    /\ ConvertIdle
    /\ BatchIdle

NextParse ==
    \/ ParseStart
    \/ ConvertChunk
    \/ Join
    \/ Cleanup

SpecParse == InitParse /\ [][NextParse]_vars

(* --------- MathpixProcessor.submit_pdf, MathpixPdfConverter.convert ------ *)

\* what the POST of submit_pdf can get: an OK answer with a pdf_id; an OK
\* answer with a pdf_id and the fields 'error' and 'error_info'; an OK answer
\* with 'error' and no 'pdf_id'; a non-OK answer; no answer
SubmitAnswers == {"ok", "ok_error", "ok_error_no_id", "not_ok", "unreachable"}

InlineError == <<"the 'error' field of the answer">>

\* the archives among the bodies, and the .tex file of those that hold one
HasTex(bytes) == bytes \in {"zip_a", "zip_b"}
IsZip(bytes) == HasTex(bytes) \/ bytes = "zip_no_tex"
TexOf(bytes) ==
    IF bytes = "zip_a" THEN ExampleSource
    ELSE <<BeginTabular, EndTabular, IncludeGraphics, Open, "a", Close>>

\* submit_pdf, lines 100-133: what it returns or raises for an answer; n jobs
\* were given a pdf_id before
submit_pdf(a, n) ==
    LET result(id, error) == [pdf_id |-> id, zip_b64 |-> None, zip_hash |-> None,
                              error |-> error]
    IN IF a = "ok" THEN [raise |-> "none", result |-> result(PdfId(n + 1), None)]
       ELSE IF a = "ok_error"
       THEN [raise |-> "none", result |-> result(PdfId(n + 1), InlineError)]
       ELSE IF a = "ok_error_no_id" THEN [raise |-> "KeyError", result |-> result(None, None)]
       ELSE IF a = "not_ok"
       THEN LET h == HandlerOutcome("HTTPError")
            IN IF h = "TypeError"
               THEN [raise |-> h, result |-> result(None, None)]
               ELSE [raise |-> "none", result |-> result(None, <<h>>)]
       ELSE [raise |-> "RequestException", result |-> result(None, None)]

\* line 313: convert(pdf_path) is called and calls submit_pdf
ConvertCall ==
    /\ cpc \in {"idle", "returned", "raised"}
    /\ converts < MaxConverts
    /\ converts' = converts + 1
    /\ \E f \in Files, a \in SubmitAnswers :
        LET out == submit_pdf(a, Len(subs))
        IN /\ cfile' = f
           /\ mr' = out.result
           /\ subs' = IF out.result.pdf_id # None
                      THEN Append(subs, [md5 |-> _calculate_md5(content[f]),
                                         error |-> out.result.error])
                      ELSE subs
           /\ IF out.raise = "none"
              THEN cpc' = "submitted" /\ cexc' = <<"none", "none">>
              ELSE cpc' = "raised" /\ cexc' = <<"submit_pdf", out.raise>>
    /\ apc' = "idle"
    /\ clock' = 0
    /\ polls' = 0
    /\ downloads' = 0
    /\ seen' = {}
    /\ aexc' = "none"
    /\ latex' = <<>>
    /\ rpc' = "idle"
    /\ chunks' = <<>>
    /\ ci' = 0
    /\ pdf_result' = [raw_latex |-> <<>>, content |-> None, text |-> <<>>,
                      tables |-> <<>>, images |-> <<>>]
    /\ latex_str' = NoStr
    /\ calls' = <<>>
    /\ rexc' = "none"
    /\ UNCHANGED <<timeout_s, sleep_s>>
    /\ UNCHANGED <<cacheVars, pipeVars, batchVars>>

\* lines 314-317: a result with an error makes convert raise; without one,
\* await_result is called with its default timeout_s and sleep_s
ConvertAfterSubmit ==
    /\ cpc = "submitted"
    /\ IF HasError(mr)
       THEN /\ cpc' = "raised"
            /\ cexc' = <<"convert", "MathpixProcessingError">>
            /\ UNCHANGED apc
       ELSE /\ cpc' = "awaiting"
            /\ apc' = "entry"
            /\ UNCHANGED cexc
    /\ UNCHANGED <<cfile, subs, converts>>
    /\ UNCHANGED <<timeout_s, sleep_s, clock, mr, polls, downloads, seen, aexc>>
    /\ UNCHANGED <<cacheVars, pipeVars, parseVars, batchVars>>

\* lines 317-320: await_result raised, or returned a result with an error
\* (convert raises), or returned one without (parse_result is called)
ConvertAfterAwait ==
    /\ cpc = "awaiting"
    /\ apc \in {"done", "raised"}
    /\ IF apc = "raised"
       THEN /\ cpc' = "raised"
            /\ cexc' = <<"await_result", aexc>>
            /\ UNCHANGED rpc
       ELSE IF HasError(mr)
       THEN /\ cpc' = "raised"
            /\ cexc' = <<"convert", "MathpixProcessingError">>
            /\ UNCHANGED rpc
       ELSE /\ cpc' = "parsing"
            /\ rpc' = "archive"
            /\ UNCHANGED cexc
    /\ UNCHANGED <<cfile, subs, converts>>
    /\ UNCHANGED <<latex, chunks, ci, pdf_result, latex_str, calls, rexc>>
    /\ UNCHANGED <<cacheVars, pipeVars, awaitVars, batchVars>>

\* parse_result, lines 220-231: the archive is decoded, its hash compared,
\* opened as a zip file and searched for the .tex file
OpenArchive ==
    /\ rpc = "archive"
    /\ IF mr.zip_b64 = None
       THEN /\ rpc' = "raised"
            /\ rexc' = "AssertionError"
            /\ UNCHANGED latex
       ELSE LET zip_bytes == B64Decode(mr.zip_b64)
            IN IF Sha256(zip_bytes) # mr.zip_hash
               THEN /\ rpc' = "raised"
                    /\ rexc' = "AssertionError"
                    /\ UNCHANGED latex
               ELSE IF ~IsZip(zip_bytes)
               THEN /\ rpc' = "raised"
                    /\ rexc' = "BadZipFile"
                    /\ UNCHANGED latex
               ELSE IF ~HasTex(zip_bytes)
               THEN /\ rpc' = "raised"
                    /\ rexc' = "AssertionError"
                    /\ UNCHANGED latex
               ELSE /\ latex' = TexOf(zip_bytes)
                    /\ rpc' = "start"
                    /\ UNCHANGED rexc
    /\ UNCHANGED <<chunks, ci, pdf_result, latex_str, calls>>
    /\ UNCHANGED <<cacheVars, pipeVars, awaitVars, convVars, batchVars>>

\* lines 320-321: parse_result raised, or convert returns the PdfResult
ConvertAfterParse ==
    /\ cpc = "parsing"
    /\ rpc \in {"done", "raised"}
    /\ IF rpc = "raised"
       THEN cpc' = "raised" /\ cexc' = <<"parse_result", rexc>>
       ELSE cpc' = "returned" /\ UNCHANGED cexc
    /\ UNCHANGED <<cfile, subs, converts>>
    /\ UNCHANGED <<cacheVars, pipeVars, awaitVars, parseVars, batchVars>>

InitConvert ==
    /\ InitCacheVars
    /\ queue = {}
    /\ InitPipeVars
    /\ timeout_s = DefaultTimeout
    /\ sleep_s = DefaultSleep
    /\ apc = "idle"
    /\ clock = 0
    /\ mr = [pdf_id |-> None, zip_b64 |-> None, zip_hash |-> None, error |-> None]
    /\ polls = 0
    /\ downloads = 0
    /\ seen = {}
    /\ aexc = "none"
    /\ latex = <<>>
    /\ rpc = "idle"
    /\ chunks = <<>>
    /\ ci = 0
    /\ pdf_result = [raw_latex |-> <<>>, content |-> None, text |-> <<>>,
                     tables |-> <<>>, images |-> <<>>]
    /\ latex_str = NoStr
    /\ calls = <<>>
    /\ rexc = "none"
    /\ ConvertIdle
    /\ BatchIdle

NextConvert ==
    \/ ConvertCall
    \/ ConvertAfterSubmit
    \/ AwaitEntry
    \/ PollTimeout
    \/ Poll
    \/ ReturnError
    \/ Download
    \/ ConvertAfterAwait
    \/ OpenArchive
    \/ ParseStart
    \/ ConvertChunk
    \/ Join
    \/ Cleanup
    \/ ConvertAfterParse

SpecConvert == InitConvert /\ [][NextConvert]_vars

(* -------------------------- process_directory -------------------------- *)

\* Path.stem of the PDFs' names
Stem(f) == IF f = "a.pdf" THEN "a" ELSE IF f = "b.pdf" THEN "b" ELSE "c"

\* line 50: the names of the PDFs of the library directory
pdf_inbox(lib) == lib

\* line 51: stem + '.txt' of the files of the fulltext directory
pdf_parsed(ft) == {Stem(f) \o ".txt" : f \in {g \in Files : ft[g] # None}}

\* line 52
pdf_files(lib, ft) == pdf_inbox(lib) \ pdf_parsed(ft)

\* how a process_pdf task can end: it returns or it raises
TaskOutcomes == {"returned", "raised"}

\* mutant of LoopBody: the loop asks the future for its result
LoopBodyResult(outcome) == IF outcome = "raised" THEN "raise" ELSE "print"

\* lines 62-67, the body of the as_completed loop: a line is printed; the
\* future is not asked for its result, whatever the task ended with
LoopBody(outcome) == "print"

\* lines 50-59: the work set is computed, the pool made, and one process_pdf
\* task submitted per PDF of the work set
ProcessDirectory ==
    /\ dpc = "idle"
    /\ work' = pdf_files(inbox, fulltext)
    /\ fut' = [f \in Files |-> IF f \in work' THEN "pending" ELSE "none"]
    /\ dpc' = "waiting"
    /\ UNCHANGED printed
    /\ UNCHANGED <<cacheVars, pipeVars, awaitVars, parseVars, convVars>>

\* a free worker process of the pool takes a pending task
TaskStart(f) ==
    /\ dpc = "waiting"
    /\ fut[f] = "pending"
    /\ Cardinality({g \in Files : fut[g] = "running"}) < NumWorkers
    /\ fut' = [fut EXCEPT ![f] = "running"]
    /\ UNCHANGED <<work, dpc, printed>>
    /\ UNCHANGED <<cacheVars, pipeVars, awaitVars, parseVars, convVars>>

\* the task's process_pdf call returns or raises; the pool stores the result
\* or the exception in the future
TaskEnd(f) ==
    /\ fut[f] = "running"
    /\ \E o \in TaskOutcomes : fut' = [fut EXCEPT ![f] = o]
    /\ UNCHANGED <<work, dpc, printed>>
    /\ UNCHANGED <<cacheVars, pipeVars, awaitVars, parseVars, convVars>>

\* lines 62-67: as_completed yields a finished future
AsCompleted(f) ==
    /\ dpc = "waiting"
    /\ fut[f] \in TaskOutcomes
    /\ f \notin printed
    /\ IF LoopBody(fut[f]) = "print"
       THEN printed' = printed \cup {f} /\ UNCHANGED dpc
       ELSE dpc' = "raised" /\ UNCHANGED printed
    /\ UNCHANGED <<work, fut>>
    /\ UNCHANGED <<cacheVars, pipeVars, awaitVars, parseVars, convVars>>

\* line 57, the end of the with block: every future was yielded, the pool is
\* shut down and process_directory returns
ExitPool ==
    /\ dpc = "waiting"
    /\ printed = work
    /\ dpc' = "returned"
    /\ UNCHANGED <<work, fut, printed>>
    /\ UNCHANGED <<cacheVars, pipeVars, awaitVars, parseVars, convVars>>

\* the library directory holds any of the PDFs, and the fulltext directory
\* the text of any of them (of an earlier run)
InitBatch ==
    /\ InitCacheVars
    /\ queue = {}
    /\ ppc = "idle"
    /\ summarize = TRUE
    /\ pdf_id = None
    /\ elapsed = 0
    /\ attempts = 0
    /\ corrupt = 0
    /\ served = NoDownload
    /\ left = "none"
    /\ writes = 0
    /\ perr = "none"
    /\ runs = 0
    /\ inbox \in SUBSET Files
    /\ archive = {}
    /\ fulltext \in [Files -> {None, FinalText(PdfId(1))}]
    /\ summary = [f \in Files |-> None]
    /\ expired = [f \in Files |-> NoExpiry]
    /\ llm = 0
    /\ processed_latex_string = NoStr
    /\ AwaitIdle
    /\ ParseIdle
    /\ ConvertIdle
    /\ BatchIdle

NextBatch ==
    \/ ProcessDirectory
    \/ \E f \in Files : TaskStart(f)
    \/ \E f \in Files : TaskEnd(f)
    \/ \E f \in Files : AsCompleted(f)
    \/ ExitPool

\* the pool runs every submitted task, every process_pdf call ends (its loop
\* is bounded by PDF_PARSE_TIMEOUT), and the main process keeps running
SpecBatch ==
    /\ InitBatch
    /\ [][NextBatch]_vars
    /\ WF_vars(ProcessDirectory)
    /\ WF_vars(\E f \in Files : TaskStart(f))
    /\ WF_vars(\E f \in Files : TaskEnd(f))
    /\ WF_vars(\E f \in Files : AsCompleted(f))
    /\ WF_vars(ExitPool)

(* ------------- preprocess_regex (latex_helpers.py), cleanup ------------- *)

\* tokens of the strings handed to the cleanup: the three macro names, the
\* braces, two letters, and the two pieces of punctuation replace_href writes
Href == "\\href"
UrlStyle == "\\urlstyle"
GraphicsPath == "\\graphicspath"
OpenParen == " ("
CloseParen == ") "
Letters == {"u", "t"}

\* \href{U}{T} as tokens
HrefMacro(U, T) == <<Href, Open>> \o U \o <<Close, Open>> \o T \o <<Close>>

\* the pieces the input strings are made of: a letter, a stray brace, the two
\* deleted macros, a macro name without argument, and hyperlinks
Words == {<<>>, <<"u">>, <<"t">>, <<"u", "t">>}
Pieces ==
    {<<c>> : c \in Letters \cup {Open, Close, Href}}
    \cup {<<UrlStyle, Open, "u", Close>>, <<GraphicsPath, Open, "t", Close>>}
    \cup {HrefMacro(U, T) : U \in Words \ {<<"t">>}, T \in Words \ {<<"u">>}}

RECURSIVE StringsOf(_)
StringsOf(n) ==
    IF n = 0 THEN {<<>>}
    ELSE LET shorter == StringsOf(n - 1)
         IN shorter \cup {s \o p : s \in shorter, p \in Pieces}

\* the strings preprocess_regex is applied to
CleanInputs == StringsOf(MaxPieces)

\* the position of the first closing brace of s at or after from, 0 if none:
\* where the lazy .*? followed by } stops
FirstClose(s, from) ==
    LET at == {k \in from..Len(s) : s[k] = Close}
    IN IF at = {} THEN 0 ELSE CHOOSE k \in at : \A m \in at : k <= m

\* re.sub(r'\\urlstyle{.*?}', '', s) and re.sub(r'\\graphicspath{.*?}', '', s),
\* lines 120 and 123, from position i on: the leftmost matches are deleted
RECURSIVE SubDelete(_, _, _)
SubDelete(macro, s, i) ==
    IF i > Len(s) THEN <<>>
    ELSE LET k == FirstClose(s, i + 2)
         IN IF s[i] = macro /\ i + 1 <= Len(s) /\ s[i + 1] = Open /\ k # 0
            THEN SubDelete(macro, s, k + 1)
            ELSE <<s[i]>> \o SubDelete(macro, s, i + 1)

\* the match of r'\\href{.*?}{(.*?)}' (line 132) at position i of s, as the
\* groups it captured and the position of its last token; last = 0: no match.
\* The pattern has one capturing group, the second pair of braces.
HrefMatch(s, i) ==
    LET mid == {j \in (i + 2)..(Len(s) - 1) :
                    s[j] = Close /\ s[j + 1] = Open /\ FirstClose(s, j + 2) # 0}
    IN IF i + 1 <= Len(s) /\ s[i] = Href /\ s[i + 1] = Open /\ mid # {}
       THEN LET j == CHOOSE x \in mid : \A y \in mid : x <= y
                k == FirstClose(s, j + 2)
            IN [groups |-> <<SubSeq(s, j + 2, k - 1)>>, last |-> k]
       ELSE [groups |-> <<>>, last |-> 0]

\* match.group(n): IndexError for a group the pattern does not have
MatchGroup(m, n) ==
    IF n \in 1..Len(m.groups)
    THEN [raise |-> "none", value |-> m.groups[n]]
    ELSE [raise |-> "IndexError", value |-> <<>>]

\* replace_href, lines 126-130: group(2) + " (" + group(1) + ") ", and
\* group(1) when that raised
replace_href(m) ==
    LET g2 == MatchGroup(m, 2)
        g1 == MatchGroup(m, 1)
    IN IF g2.raise = "none" /\ g1.raise = "none"
       THEN g2.value \o <<OpenParen>> \o g1.value \o <<CloseParen>>
       ELSE MatchGroup(m, 1).value

\* re.sub(r'\\href{.*?}{(.*?)}', replace_href, s), line 132, from position i
RECURSIVE SubHref(_, _)
SubHref(s, i) ==
    IF i > Len(s) THEN <<>>
    ELSE LET m == HrefMatch(s, i)
         IN IF m.last # 0
            THEN replace_href(m) \o SubHref(s, m.last + 1)
            ELSE <<s[i]>> \o SubHref(s, i + 1)

\* latex_helpers.preprocess_regex, lines 118-134
preprocess_regex(latex_string) ==
    SubHref(SubDelete(GraphicsPath, SubDelete(UrlStyle, latex_string, 1), 1), 1)

\* PdfProcessor.regex_preprocessing, pdf_processor.py lines 162-178: the same
\* three substitutions
regex_preprocessing(latex_string) ==
    SubHref(SubDelete(GraphicsPath, SubDelete(UrlStyle, latex_string, 1), 1), 1)

\* parse_result line 261 and pdf_to_txt line 151: the joined string goes
\* through the regex cleanup (the flag tells which of the two copies ran)
PreprocessRegex ==
    /\ rpc = "joined"
    /\ \E copy \in {"preprocess_regex", "regex_preprocessing"} :
        /\ latex_str' = IF copy = "preprocess_regex"
                        THEN preprocess_regex(latex_str)
                        ELSE regex_preprocessing(latex_str)
        /\ rpc' = copy
    /\ UNCHANGED <<latex, chunks, ci, pdf_result, calls, rexc>>
    /\ UNCHANGED <<cacheVars, pipeVars, awaitVars, convVars, batchVars>>

\* a document without table and image is one text chunk, so the joined string
\* is the document: latex keeps it, latex_str is what the cleanup works on
\* (both as sequences of tokens)
InitClean ==
    /\ latex \in CleanInputs
    /\ latex_str = latex
    /\ rpc = "joined"
    /\ chunks = <<>>
    /\ ci = 0
    /\ pdf_result = [raw_latex |-> <<>>, content |-> None, text |-> <<>>,
                     tables |-> <<>>, images |-> <<>>]
    /\ calls = <<>>
    /\ rexc = "none"
    /\ AwaitIdle
    /\ PipelineIdle
    /\ ConvertIdle
    /\ BatchIdle

NextClean == PreprocessRegex

SpecClean == InitClean /\ [][NextClean]_vars

(* -------------- PdfProcessor.pdf_to_txt: the reassembly ---------------- *)

\* a piece (start, length, type, filename) of lines 121-133
Piece(start, length, type, filename) ==
    [start |-> start, length |-> length, type |-> type, filename |-> filename]

\* find_latex_pieces, lines 186-198: the table and image pieces in document
\* order; groups and other environments are searched
RECURSIVE find_latex_pieces(_)
find_latex_pieces(nodes) ==
    IF nodes = <<>> THEN <<>>
    ELSE LET n == Head(nodes)
             here == IF IsTabular(n)
                     THEN <<Piece(n.pos, n.len, "table", NoStr)>>
                     ELSE IF IsImage(n)
                     THEN <<Piece(n.pos, n.len, "image",
                                  IF HasFilename(n)
                                  THEN n.nodeargs[1].nodelist[1].chars
                                  ELSE NoStr)>>
                     ELSE IF n.kind \in {"group", "environment"}
                     THEN find_latex_pieces(n.nodelist)
                     ELSE <<>>
         IN here \o find_latex_pieces(Tail(nodes))

\* lines 125-133: a text piece for every gap before, between and after the
\* pieces found; n is len(latex_string)
RECURSIVE TextPieces(_, _, _)
TextPieces(pieces, last_pos, n) ==
    IF pieces = <<>>
    THEN IF last_pos < n THEN <<Piece(last_pos, n - last_pos, "text", NoStr)>> ELSE <<>>
    ELSE LET p == Head(pieces)
         IN (IF last_pos < p.start
             THEN <<Piece(last_pos, p.start - last_pos, "text", NoStr)>> ELSE <<>>)
            \o <<p>> \o TextPieces(Tail(pieces), p.start + p.length, n)

\* the answers of the (mocked) table and image conversions
MockTable == CHOOSE out \in TableAnswers : TRUE
MockImage == CHOOSE out \in ImageAnswers : TRUE

\* lines 137-149: what one piece adds to processed_latex_string
PieceText(s, p) ==
    IF p.type = "text" THEN Str(SubSeq(s, p.start + 1, p.start + p.length))
    ELSE IF p.type = "image"
    THEN IMAGE_START_DELIMITER \o MockImage \o IMAGE_END_DELIMITER
    ELSE TABLE_START_DELIMITER \o MockTable \o TABLE_END_DELIMITER

\* lines 135-149: the loop over text_pieces
RECURSIVE JoinPieces(_, _)
JoinPieces(s, ps) ==
    IF ps = <<>> THEN "" ELSE PieceText(s, Head(ps)) \o JoinPieces(s, Tail(ps))

\* the text_pieces of lines 119-133 for the .tex source s
text_pieces(s) == TextPieces(find_latex_pieces(get_latex_nodes(s)), 0, Len(s))

\* pdf_to_txt, lines 117-149, on the archive whose .tex file is latex, the
\* conversions answering: the string before regex_preprocessing; an image
\* macro without a file name makes line 234 raise
PdfToTxtReassemble ==
    /\ processed_latex_string = NoStr
    /\ perr = "none"
    /\ IF ExtractRaises(get_latex_nodes(latex))
       THEN /\ perr' = "MalformedInput"
            /\ UNCHANGED processed_latex_string
       ELSE /\ processed_latex_string' = JoinPieces(latex, text_pieces(latex))
            /\ UNCHANGED perr
    /\ UNCHANGED <<ppc, summarize, pdf_id, elapsed, attempts, corrupt, served, left,
                   writes, runs, inbox, archive, fulltext, summary, expired, llm>>
    /\ UNCHANGED <<cacheVars, awaitVars, parseVars, convVars, batchVars>>

\* both variants are given the archive whose .tex file is latex
InitAgree ==
    /\ latex \in Sources
    /\ InitParseVars
    /\ AwaitIdle
    /\ PipelineIdle
    /\ ConvertIdle
    /\ BatchIdle

NextAgree ==
    \/ ParseStart
    \/ ConvertChunk
    \/ Join
    \/ Cleanup
    \/ PdfToTxtReassemble

SpecAgree == InitAgree /\ [][NextAgree]_vars

(* --------------------------- specifications ---------------------------- *)

Init ==
    /\ InitCacheVars
    /\ queue = {}
    /\ InitPipeVars
    /\ AwaitIdle
    /\ ParseIdle
    /\ ConvertIdle
    /\ BatchIdle

Next ==
    \/ StartProcessPdf
    \/ Select(1)
    \/ Post(1)
    \/ Insert(1)
    \/ GotId
    \/ GetIdRaised
    \/ AttemptConversion
    \/ LeaveLoop
    \/ SummarizeAndReturn

Spec == Init /\ [][Next]_vars

InitCache ==
    /\ InitCacheVars
    /\ queue = Files
    /\ InitPipeVars
    /\ AwaitIdle
    /\ ParseIdle
    /\ ConvertIdle
    /\ BatchIdle

NextCache ==
    \/ \E w \in Workers : Dispatch(w)
    \/ \E w \in Workers : Select(w)
    \/ \E w \in Workers : Post(w)
    \/ \E w \in Workers : Insert(w)

SpecCache == InitCache /\ [][NextCache]_vars

InitAwait ==
    /\ timeout_s \in 0..MaxTimeout
    /\ sleep_s \in 1..MaxSleep
    /\ InitAwaitVars
    /\ PipelineIdle
    /\ ParseIdle
    /\ ConvertIdle
    /\ BatchIdle

NextAwait ==
    \/ AwaitEntry
    \/ PollTimeout
    \/ Poll
    \/ ReturnError
    \/ Download

SpecAwait == InitAwait /\ [][NextAwait]_vars

\* a caller builds a PdfProcessor over the store left by the processes before
\* it (pdf_processor.py lines 23-30) and calls get_mathpix_pdf_id(f); the
\* file at path f holds content c by then
Lookup(f, c) ==
    /\ pc[1] \in {"idle", "returned", "raised"}
    /\ Len(log) < MaxLookups
    /\ content' = [content EXCEPT ![f] = c]
    /\ task' = [task EXCEPT ![1] = f]
    /\ db' = _initialize_db(db)
    /\ pc' = [pc EXCEPT ![1] = "call"]
    /\ begun' = [begun EXCEPT ![1] = Len(log)]
    /\ UNCHANGED <<posts, jobs, mpid, ret, err, log, queue>>
    /\ UNCHANGED <<pipeVars, awaitVars, parseVars, convVars, batchVars>>

InitLookup ==
    /\ PipelineIdle
    /\ AwaitIdle
    /\ ParseIdle
    /\ ConvertIdle
    /\ BatchIdle

NextLookup ==
    \/ \E f \in Files, c \in Contents : Lookup(f, c)
    \/ Select(1)
    \/ Post(1)
    \/ Insert(1)

SpecLookup == InitLookup /\ [][NextLookup]_vars

\* between await_result and parse_result the caller keeps the MathpixResult
\* (parse_result takes one "from MathpixProcessor or made manually", line 217)
\* and the stored zip_b64 can come back as the encoding of other bytes
Storage ==
    /\ apc = "done"
    /\ rpc = "idle"
    /\ mr.zip_b64 # None
    /\ \E b \in Bodies : mr' = [mr EXCEPT !.zip_b64 = B64Encode(b)]
    /\ UNCHANGED <<timeout_s, sleep_s, apc, clock, polls, downloads, seen, aexc>>
    /\ UNCHANGED <<cacheVars, pipeVars, parseVars, convVars, batchVars>>

\* line 214: parse_result is called with the MathpixResult await_result
\* returned
ParseResultCall ==
    /\ apc = "done"
    /\ rpc = "idle"
    /\ rpc' = "archive"
    /\ UNCHANGED <<latex, chunks, ci, pdf_result, latex_str, calls, rexc>>
    /\ UNCHANGED <<cacheVars, pipeVars, awaitVars, convVars, batchVars>>

\* await_result is entered for a submitted job, with its default arguments
InitArchive ==
    /\ timeout_s = DefaultTimeout
    /\ sleep_s = DefaultSleep
    /\ InitAwaitVars
    /\ latex = <<>>
    /\ rpc = "idle"
    /\ chunks = <<>>
    /\ ci = 0
    /\ pdf_result = [raw_latex |-> <<>>, content |-> None, text |-> <<>>,
                     tables |-> <<>>, images |-> <<>>]
    /\ latex_str = NoStr
    /\ calls = <<>>
    /\ rexc = "none"
    /\ PipelineIdle
    /\ ConvertIdle
    /\ BatchIdle

NextArchive ==
    \/ AwaitEntry
    \/ PollTimeout
    \/ Poll
    \/ ReturnError
    \/ Download
    \/ Storage
    \/ ParseResultCall
    \/ OpenArchive
    \/ ParseStart
    \/ ConvertChunk
    \/ Join
    \/ Cleanup

SpecArchive == InitArchive /\ [][NextArchive]_vars

(* ------------------------------- claims -------------------------------- *)

\* the jobs the service holds for content hash h
JobsOf(h) == {n \in 1..Len(jobs) : jobs[n] = h}

\* C1 (as claimed, SpecCache): however the workers' calls interleave, the
\* service is never given the same content twice: it holds at most one job
\* per content hash.
C1_OneJobPerHash == \A h \in Hashes : Cardinality(JobsOf(h)) <= 1

\* submissions made for hash h by the calls i..j of the history
PostsBetween(h, i, j) ==
    Cardinality({k \in i..j : log[k].md5 = h /\ log[k].posted})

\* C2 (Spec): of two calls made one after the other on the same content, the
\* first having returned, the second returns too, finds the entry without any
\* request to the service, and returns the same identifier; together they made
\* one submission (none when the first found an entry already).
C2_SecondCallIsAHit ==
    \A i \in 1..Len(log) : \A j \in 1..Len(log) :
        (i < j /\ log[i].md5 = log[j].md5 /\ log[i].status = "returned")
        => /\ log[j].status = "returned"
           /\ log[j].hit
           /\ ~log[j].posted
           /\ log[j].id = log[i].id
           /\ PostsBetween(log[i].md5, i, j) = (IF log[i].hit THEN 0 ELSE 1)

\* C2 witness: a.pdf-like and b.pdf-like files of equal content were looked up
\* in turn, the first lookup submitted and got a job identifier
C2_Witness ==
    \E i \in 1..Len(log) : \E j \in 1..Len(log) :
        /\ i < j
        /\ log[i].md5 = log[j].md5
        /\ log[i].file # log[j].file
        /\ log[i].status = "returned" /\ log[i].posted /\ log[i].id # None
        /\ log[j].status = "returned"

\* C3 (as claimed, Spec): every cache entry holds the identifier of a job the
\* service created for that content; a failed submission leaves no entry.
C3_EntriesHoldJobIds ==
    \A r \in db :
        /\ r.mathpix_pdf_id # None
        /\ \E n \in JobsOf(r.md5) : r.mathpix_pdf_id = PdfId(n)

\* the process_pdf invocation is past its while loop
PastLoop == ppc \in {"after", "returned", "raised"} /\ left # "none"

\* C4 (Spec): when an attempt raised BadZipfile and a later attempt of the same
\* invocation met a complete archive, the text of that archive is the fulltext
\* file, written once, the PDF is moved to the archive directory, and the
\* invocation raises nothing (the summary model failing, after the conversion,
\* is the one error left).
C4_CorruptThenValid ==
    (PastLoop /\ corrupt >= 1 /\ served = [kind |-> "good", conv |-> "ok"])
    => /\ left = "break"
       /\ writes = 1
       /\ fulltext[Pdf] = FinalText(pdf_id)
       /\ Pdf \in archive /\ Pdf \notin inbox
       /\ ppc = "raised" => perr = "SummaryModelError"
       /\ (ppc = "returned" /\ ~summarize) => perr = "none"

\* C4 witness: an invocation returned after a corrupt and then a complete download
C4_Witness ==
    /\ ppc = "returned" /\ perr = "none"
    /\ corrupt >= 1 /\ attempts = corrupt + 1
    /\ served = [kind |-> "good", conv |-> "ok"]

\* C5 (SpecAwait): while every status request is answered with a status that is
\* neither 'completed' nor 'error', await_result never waits beyond
\* timeout_s + sleep_s, raises nothing, and once its loop is left the result
\* holds the timeout error and timeout_s <= elapsed <= timeout_s + sleep_s.
C5_TimeoutWindow ==
    (seen \subseteq {"processing"})
    => /\ clock <= timeout_s + sleep_s
       /\ apc # "raised"
       /\ downloads = 0
       /\ apc \in {"after", "done"}
            => /\ mr.error = TimeoutMessage
               /\ timeout_s <= clock
               /\ clock <= timeout_s + sleep_s

\* C5 witness: await_result returned the timeout error after polling in vain
C5_Witness ==
    /\ apc = "done" /\ seen = {"processing"} /\ polls >= 2
    /\ mr.error = TimeoutMessage

\* the state part of C6
C6_Inv ==
    /\ downloads <= 1
    /\ downloads > 0 => ("completed" \in seen /\ apc \in {"done", "raised"})
    /\ mr.zip_b64 # None => downloads = 1
    /\ (apc \in {"after", "done"} /\ "completed" \notin seen)
         => /\ mr.error \in {ServerErrorMessage, TimeoutMessage}
            /\ mr.error = ServerErrorMessage <=> "error" \in seen
            /\ downloads = 0
            /\ mr.zip_b64 = None /\ mr.zip_hash = None

\* C6 (SpecAwait): the download request is made only after a status request
\* saw 'completed'; when the loop ends on status 'error' or on the timeout the
\* result holds the error, nothing is downloaded, zip_b64 and zip_hash stay
\* unset; and once the loop is left no status request is made.
C6_StateMachine ==
    /\ []C6_Inv
    /\ [][(apc \in {"after", "done", "raised"}) => (polls' = polls)]_vars

\* C6 witness: await_result returned after the service reported 'error'
C6_Witness ==
    /\ apc = "done" /\ "error" \in seen /\ polls >= 2
    /\ mr.error = ServerErrorMessage

\* the spans of cs cover [0, n) in list order without gap, overlap or empty span
Tiles(cs, n) ==
    /\ cs = <<>> => n = 0
    /\ cs # <<>> => cs[1].start = 0 /\ cs[Len(cs)].end = n
    /\ \A k \in 1..Len(cs) : cs[k].start < cs[k].end
    /\ \A k \in 2..Len(cs) : cs[k].start = cs[k - 1].end

\* get_latex_chunks has returned its list to parse_result
ChunksReturned == rpc # "start" /\ rexc # "MalformedInput"

\* C7: the chunk list returned by get_latex_chunks(s) tiles the input: the
\* first chunk starts at 0, every chunk starts where the previous one ends,
\* every chunk has start < end, and the last chunk ends at len(s).
C7_ChunksTileInput == ChunksReturned => Tiles(chunks, Len(latex))

\* C7 witness: a returned list of a text, a table and the text after it
C7_Witness ==
    /\ ChunksReturned
    /\ Len(chunks) = 3
    /\ chunks[1].type = "text"
    /\ chunks[1].start = 0
    /\ chunks[2].type = "table"
    /\ chunks[2].start = 1
    /\ chunks[3].type = "text"
    /\ chunks[3].end = Len(latex)

RECURSIVE ConcatRaw(_)
ConcatRaw(cs) == IF cs = <<>> THEN <<>> ELSE Head(cs).raw_content \o ConcatRaw(Tail(cs))

\* C8: concatenating raw_content of the chunks returned by get_latex_chunks(s),
\* in the order returned, reproduces s exactly.
C8_RawContentReproducesInput == ChunksReturned => ConcatRaw(chunks) = latex

\* C8 witness: a returned list of three chunks, a table nested in a group
\* between two texts, whose raw contents were concatenated
C8_Witness ==
    /\ ChunksReturned
    /\ Len(chunks) = 3
    /\ chunks[2].type = "table"
    /\ chunks[1].raw_content = <<Open>>
    /\ chunks[3].raw_content = <<Close>>
    /\ ConcatRaw(chunks) = latex

\* C9: a converted table (image) chunk's processed content is exactly the start
\* delimiter, the converter's output and the end delimiter, the pre-cleanup
\* text is the in-order concatenation of the chunks' processed content, and the
\* example source with a table converter answering 'Col: 1' gives the
\* pre-cleanup text
\* 'Intro text. \n<===TABLE START===>\nCol: 1\n<===TABLE END===>\n More text.'
C9_ExactWrapping ==
    /\ \A k \in 1..Len(chunks) :
         chunks[k].converted # NoStr =>
            /\ chunks[k].type = "table" =>
                 chunks[k].processed_content =
                    TABLE_START_DELIMITER \o chunks[k].converted \o TABLE_END_DELIMITER
            /\ chunks[k].type = "image" =>
                 chunks[k].processed_content =
                    IMAGE_START_DELIMITER \o chunks[k].converted \o IMAGE_END_DELIMITER
    /\ rpc \in {"joined", "done"} => latex_str = JoinProcessed(chunks)
    /\ (rpc \in {"joined", "done"} /\ latex = ExampleSource) =>
         latex_str = "Intro text. " \o "\n<===TABLE START===>\n" \o "Col: 1"
                       \o "\n<===TABLE END===>\n" \o " More text."


\* C10 (as claimed, Spec): an invocation whose budget ran out with every
\* download corrupt does not return normally, writes no fulltext file, leaves
\* the PDF in the library and writes no summary.
C10_TimeoutIsFatal ==
    (left = "timeout" /\ ppc \in {"returned", "raised"})
    => /\ ppc = "raised"
       /\ writes = 0
       /\ Pdf \in inbox
       /\ summary[Pdf] = None

\* the running or finished invocation is on a PDF on which an earlier
\* invocation used up its budget
Reinvoked ==
    /\ ppc # "idle"
    /\ expired[Pdf].run > 0
    /\ expired[Pdf].run < runs

\* C11 (Spec): an invocation on a PDF whose earlier invocation ended by using
\* up the timeout budget makes no submission: its get_mathpix_pdf_id call finds
\* the entry, returns the identifier the earlier invocation had, and the loop
\* of download attempts runs with that identifier.
C11_RetryUsesCachedJob ==
    Reinvoked =>
        /\ pc[1] \notin {"miss", "posted", "raised"}
        /\ ppc # "getid" =>
             /\ pdf_id = expired[Pdf].id
             /\ pdf_id # None
             /\ log[Len(log)].file = Pdf
             /\ log[Len(log)].hit
             /\ ~log[Len(log)].posted

\* C11 witness: the second invocation on the PDF got its text from a download
C11_Witness ==
    /\ Reinvoked
    /\ ppc = "after"
    /\ left = "break"
    /\ writes = 1
    /\ fulltext[Pdf] = FinalText(expired[Pdf].id)

\* C12 (as claimed, Spec): when a download is an archive without a .tex entry,
\* the invocation ends with an error, and neither is a fulltext file written
\* nor the PDF moved.
C12_NoTexIsFatal ==
    (ppc \in {"after", "returned", "raised"} /\ served.kind = "no_tex")
    => /\ ppc = "raised"
       /\ writes = 0
       /\ fulltext[Pdf] = None
       /\ Pdf \in inbox

\* process_pdf: a table or image model call of pdf_to_txt failed (pdf_to_txt
\* got as far as the download: its pdf_id is a string)
C13_ProcessPdf ==
    (ppc # "idle" /\ pdf_id # None /\ served = [kind |-> "good", conv |-> "fail"])
    => /\ ppc = "raised"
       /\ perr = "ModelError"
       /\ llm = 1
       /\ writes = 0
       /\ fulltext[Pdf] = None
       /\ Pdf \in inbox /\ Pdf \notin archive
       /\ summary[Pdf] = None

\* parse_result, convert: a table or image model call failed at chunk ci
C13_Convert ==
    rexc = "ModelError"
    => /\ rpc = "raised"
       /\ calls # <<>> /\ calls[Len(calls)].chunk = ci
       /\ \A k \in ci..Len(chunks) : chunks[k].processed_content = NoStr
       /\ latex_str = NoStr
       /\ pdf_result.content = None
       /\ cpc \in {"idle", "parsing", "raised"}
       /\ cpc = "raised" => cexc = <<"parse_result", "ModelError">>

C14_Inv ==
    "http_error" \in seen
    => /\ apc = "raised"
       /\ aexc = "TypeError"
       /\ downloads = 0
       /\ mr.zip_b64 = None /\ mr.zip_hash = None
       /\ rpc = "idle"
       /\ cpc \in {"awaiting", "raised"}
       /\ cpc = "raised" => cexc = <<"await_result", "TypeError">>

C14_NonOkPollFails ==
    /\ []C14_Inv
    /\ [][("http_error" \in seen /\ "http_error" \in seen')
            => (polls' = polls /\ downloads' = downloads)]_vars

\* C14 witness: convert raised after the third status request was answered
\* with a non-OK response
C14_Witness ==
    /\ "http_error" \in seen
    /\ polls = 3
    /\ cpc = "raised"
    /\ cexc[1] = "await_result"

\* C15 (as claimed, SpecConvert): submit_pdf raises for no answer of the
\* server; only a request that gets no answer at all makes it raise.
C15_SubmitNeverRaises ==
    cexc[1] = "submit_pdf" => cexc[2] = "RequestException"

\* C16 (as claimed, SpecConvert): a download that is no zip archive is
\* downloaded again while the budget lasts; convert fails on such an archive
\* only after retrying until the budget was used up.
C16_CorruptDownloadRetried ==
    (cpc = "raised" /\ cexc = <<"parse_result", "BadZipFile">>)
    => /\ downloads > 1
       /\ TimedOut(clock, timeout_s)

\* C17 (as claimed, SpecConvert): no content is submitted again once a
\* submission of it got a pdf_id without an error.
C17_SubmitOnlyOnMiss ==
    \A i \in 1..Len(subs) : \A j \in 1..Len(subs) :
        (i < j /\ subs[i].md5 = subs[j].md5) => subs[i].error # None

\* at most one row per md5, and a lookup that found a row returned the
\* identifier of the call that wrote the row, which the row still holds
C18_Inv ==
    /\ \A r1 \in db : \A r2 \in db : r1.md5 = r2.md5 => r1 = r2
    /\ \A j \in 1..Len(log) :
         log[j].hit =>
            /\ \E r \in db : r.md5 = log[j].md5 /\ r.mathpix_pdf_id = log[j].id
            /\ \E i \in 1..(j - 1) :
                 /\ log[i].md5 = log[j].md5
                 /\ ~log[i].hit /\ log[i].status = "returned"
                 /\ log[i].id = log[j].id

\* C18 (SpecCache): whatever the interleaving of the workers' calls, the cache
\* holds at most one entry per content hash, no entry is ever changed or
\* removed, and a lookup returns the identifier first written for the hash.
C18_OneEntryNeverChanged ==
    /\ []C18_Inv
    /\ [][db \subseteq db']_vars

\* C18 witness: two workers raced on one content, the second INSERT was
\* refused, and a later lookup of that content found the entry
C18_Witness ==
    \E i \in 1..Len(log) : \E j \in 1..Len(log) :
        /\ i < j
        /\ log[i].md5 = log[j].md5
        /\ log[i].exc = "IntegrityError"
        /\ log[j].hit

\* one request per table chunk to the text model and one per image chunk to
\* the vision model, in chunk order, from chunk k on
RECURSIVE CallsFor(_, _)
CallsFor(cs, k) ==
    IF k > Len(cs) THEN <<>>
    ELSE (IF cs[k].type = "table" THEN <<[model |-> "text", chunk |-> k]>>
          ELSE IF cs[k].type = "image" THEN <<[model |-> "vision", chunk |-> k]>>
          ELSE <<>>) \o CallsFor(cs, k + 1)

C20_Inv ==
    /\ dpc # "raised"
    /\ dpc = "returned" => \A f \in work : fut[f] \in TaskOutcomes
    /\ \A f \in Files : f \notin work => fut[f] = "none"

\* C20 (SpecBatch): whatever the work set and whichever tasks raise, every
\* task of the batch runs to its own outcome and process_directory returns
\* without raising.
C20_FailuresIsolated ==
    /\ []C20_Inv
    /\ <>(dpc = "returned")
    /\ \A f \in Files : [](fut[f] = "pending" => <>(fut[f] \in TaskOutcomes))

\* C20 witness: process_directory returned from a batch of three in which one
\* task raised and two returned
C20_Witness ==
    /\ dpc = "returned"
    /\ work = Files
    /\ Cardinality({f \in Files : fut[f] = "raised"}) = 1
    /\ Cardinality({f \in Files : fut[f] = "returned"}) = 2

(***************************************************************************)
(* C21: the work set dispatched by process_directory is the set difference  *)
(* of the input PDFs and the outputs already produced: a PDF X.pdf whose    *)
(* fulltext X.txt exists is not dispatched, and every other input PDF is    *)
(* dispatched exactly once (work is a set, one future per member).          *)
(***************************************************************************)
C21_WorkSetIsDifference ==
    dpc # "idle" =>
        /\ work = {f \in inbox : fulltext[f] = None}
        /\ {f \in Files : fut[f] # "none"} = work

\* C22, the ordering half: status requests need a submission that returned
\* without error, and parse_result needs an await_result that did
C22_Order ==
    /\ apc # "idle" => /\ cexc[1] # "submit_pdf"
                       /\ subs # <<>>
                       /\ subs[Len(subs)].error = None
    /\ polls > 0 => apc # "idle"
    /\ rpc # "idle" => apc = "done" /\ ~HasError(mr)
    /\ (chunks # <<>> \/ calls # <<>>) => rpc # "idle"

(***************************************************************************)
(* C22: convert runs its steps in strict order: no status poll unless       *)
(* submit_pdf returned without error, parse_result only after await_result  *)
(* returned without error; and a submission or a polling that ends with an  *)
(* error makes convert raise MathpixProcessingError, no later step running. *)
(***************************************************************************)
C22_StrictOrderAndError ==
    /\ C22_Order
    /\ (cpc = "raised" /\ cexc[1] \in {"submit_pdf", "await_result", "convert"})
       => /\ cexc[2] = "MathpixProcessingError"
          /\ rpc = "idle"
          /\ chunks = <<>> /\ calls = <<>>

\* process_pdf: the archive served to the last pdf_to_txt call lacks the file
\* of an image piece
C23_Inv ==
    (ppc # "idle" /\ pdf_id # None /\ served.kind = "no_image")
    => /\ ppc = "raised"
       /\ perr = "KeyError"
       /\ corrupt < attempts
       /\ left = "none"
       /\ writes = 0
       /\ fulltext[Pdf] = None
       /\ Pdf \in inbox /\ Pdf \notin archive

(***************************************************************************)
(* C23: an image piece whose file is absent from the archive ends the       *)
(* conversion with an error the caller of process_pdf sees (KeyError): the  *)
(* retry loop makes no further download attempt for it and no fulltext      *)
(* file is written.                                                         *)
(***************************************************************************)
C23_MissingImageIsFatal ==
    /\ []C23_Inv
    /\ [][(pdf_id # None /\ served.kind = "no_image" /\ served'.kind = "no_image")
            => (attempts' = attempts /\ fulltext' = fulltext /\ ppc' = "raised")]_vars

\* C23 witness: the second download, after a corrupt one that was retried,
\* lacks the image file, and process_pdf raised
C23_Witness ==
    /\ ppc = "raised"
    /\ perr = "KeyError"
    /\ served.kind = "no_image"
    /\ corrupt = 1
    /\ attempts = 2

(***************************************************************************)
(* C24: the cleanup rewrite turns every hyperlink macro \href{U}{T} into    *)
(* the inline form 'T (U)': both the link text T and the URL U are in the   *)
(* output. Stated for a hyperlink between plain letters.                    *)
(***************************************************************************)
C24_HrefBecomesInline ==
    rpc \in {"preprocess_regex", "regex_preprocessing"}
    => \A U \in Words, T \in Words, pre \in Words, post \in Words :
          latex = pre \o HrefMacro(U, T) \o post
          => latex_str = pre \o T \o <<OpenParen>> \o U \o <<CloseParen>> \o post

\* the source holds no tabular environment and no includegraphics macro
PlainSource(s) == \A i \in 1..Len(s) : s[i] \notin {BeginTabular, IncludeGraphics}

\* one chunk, of type text, covering the whole of s
OneTextChunk(cs, s) ==
    /\ Len(cs) = 1
    /\ cs[1].type = "text"
    /\ cs[1].start = 0
    /\ cs[1].end = Len(s)
    /\ cs[1].raw_content = s

\* C25 as claimed: for every input, the empty string included, without a
\* tabular environment and an includegraphics macro, get_latex_chunks returns
\* exactly one chunk, of type text, covering the whole document.
C25_AlwaysOneTextChunk ==
    (ChunksReturned /\ PlainSource(latex)) => OneTextChunk(chunks, latex)

(***************************************************************************)
(* C25, amended: for every non-empty input without a tabular environment    *)
(* and an includegraphics macro, get_latex_chunks returns exactly one       *)
(* chunk, of type text, covering the whole document; for the empty string   *)
(* it returns the empty list.                                               *)
(***************************************************************************)
C25_OneTextChunkUnlessEmpty ==
    (ChunksReturned /\ PlainSource(latex))
    => IF latex = <<>> THEN chunks = <<>> ELSE OneTextChunk(chunks, latex)

\* C25 witness: the one text chunk of a source that holds a center
\* environment and a group but no table and no image
C25_Witness ==
    /\ ChunksReturned
    /\ PlainSource(latex)
    /\ \E i \in 1..Len(latex) : latex[i] = BeginCenter
    /\ \E i \in 1..Len(latex) : latex[i] = Open
    /\ OneTextChunk(chunks, latex)

\* the number of the job whose identifier is id (0: no such job)
JobOf(id) ==
    IF \E n \in 1..Len(jobs) : PdfId(n) = id
    THEN CHOOSE n \in 1..Len(jobs) : PdfId(n) = id
    ELSE 0

(***************************************************************************)
(* C26: two files of different content (different hashes), each looked up   *)
(* with get_mathpix_pdf_id, the submissions succeeding, give two distinct   *)
(* cache entries and two submissions, one per hash, whatever the file names *)
(* (equal names included): the calls return the identifiers of two          *)
(* different jobs, each made from its own content.                          *)
(***************************************************************************)
C26_DistinctContentDistinctEntries ==
    \A i \in 1..Len(log), j \in 1..Len(log) :
        (/\ log[i].status = "returned" /\ log[i].id # None
         /\ log[j].status = "returned" /\ log[j].id # None
         /\ log[i].md5 # log[j].md5)
        => /\ log[i].id # log[j].id
           /\ JobOf(log[i].id) # 0 /\ jobs[JobOf(log[i].id)] = log[i].md5
           /\ JobOf(log[j].id) # 0 /\ jobs[JobOf(log[j].id)] = log[j].md5
           /\ posts[log[i].md5] >= 1 /\ posts[log[j].md5] >= 1
           /\ \E r \in db, q \in db :
                /\ r # q
                /\ r.md5 = log[i].md5 /\ r.mathpix_pdf_id = log[i].id
                /\ q.md5 = log[j].md5 /\ q.mathpix_pdf_id = log[j].id

\* C26 witness: the same path was looked up twice, with different content,
\* and the store holds two entries of that file name
C26_Witness ==
    /\ Len(log) >= 2
    /\ log[1].file = log[2].file
    /\ log[1].md5 # log[2].md5
    /\ log[1].status = "returned" /\ log[1].id # None
    /\ log[2].status = "returned" /\ log[2].id # None
    /\ \E r \in db, q \in db : r # q /\ r.filename = q.filename

\* a PdfProcessor is constructed: the step that starts a lookup
Restarted == pc[1] # "call" /\ pc'[1] = "call"

\* call j was made by a processor built after call i had written its entry
AfterRestart(i, j) ==
    /\ i < j
    /\ log[i].status = "returned" /\ ~log[i].hit
    /\ log[j].begun >= i
    /\ log[j].md5 = log[i].md5

(***************************************************************************)
(* C27: the cache outlives the process: constructing a new PdfProcessor     *)
(* (_initialize_db) over an existing store leaves every entry unchanged,    *)
(* so a lookup after a restart for a hash written before the restart is a   *)
(* hit that returns the stored job identifier without a submission.         *)
(***************************************************************************)
C27_EntriesSurviveRestart ==
    /\ [][Restarted => db' = db]_vars
    /\ [](\A i \in 1..Len(log), j \in 1..Len(log) :
            AfterRestart(i, j)
            => /\ log[j].status = "returned"
               /\ log[j].hit
               /\ ~log[j].posted
               /\ log[j].id = log[i].id)

\* C27 witness: an entry written by the first processor, another one by the
\* second, and the third processor's lookup of the first hash is a hit
C27_Witness ==
    /\ Len(log) = 3
    /\ Cardinality(db) = 2
    /\ AfterRestart(1, 3)
    /\ log[2].md5 # log[1].md5
    /\ log[3].hit
    /\ log[3].id = log[1].id

\* the most turns the loop can take: one every RetrySleep seconds of budget
MostAttempts == (PDF_PARSE_TIMEOUT + RetrySleep - 1) \div RetrySleep

\* the turns of the loop are counted and cost time
C28_Inv ==
    /\ attempts <= MostAttempts
    /\ corrupt <= attempts
    /\ ppc = "loop" => corrupt = attempts
    /\ ppc \in {"loop", "after", "raised", "returned"} => elapsed >= corrupt * RetrySleep
    /\ (ppc = "loop" /\ ~(elapsed < PDF_PARSE_TIMEOUT)) => ENABLED LeaveLoop

(***************************************************************************)
(* C28: the corrupt-archive retry loop of process_pdf is bounded by the     *)
(* timeout budget: no download attempt starts once the elapsed time has     *)
(* reached PDF_PARSE_TIMEOUT, an attempt that met a corrupt archive is      *)
(* followed by the 5-second delay before the next, and the loop ends after  *)
(* at most PDF_PARSE_TIMEOUT / 5 attempts even when every archive served    *)
(* is corrupt.                                                              *)
(***************************************************************************)
C28_RetryLoopBounded ==
    /\ []C28_Inv
    /\ [][attempts' = attempts + 1 => elapsed < PDF_PARSE_TIMEOUT]_vars
    /\ [][corrupt' = corrupt + 1 => elapsed' >= elapsed + RetrySleep]_vars
    /\ [][(ppc = "loop" /\ elapsed >= PDF_PARSE_TIMEOUT)
            => (ppc' = "after" /\ left' = "timeout" /\ attempts' = attempts)]_vars

\* C28 witness: every archive served was corrupt, and the loop ended on the
\* budget after the most attempts it can make
C28_Witness ==
    /\ ppc = "after"
    /\ left = "timeout"
    /\ corrupt = MostAttempts
    /\ attempts = MostAttempts
    /\ elapsed = PDF_PARSE_TIMEOUT

\* parse_result has gone past its checks of lines 220-231
ArchiveChecked == rpc \notin {"idle", "archive"}

\* the result holds the encoding of b and the hash of a
Holds(b, a) == mr.zip_b64 = B64Encode(b) /\ mr.zip_hash = Sha256(a)

\* what parse_result does with the bytes a once they passed the hash check
C29_Passed(a) ==
    IF ~IsZip(a) THEN rpc = "raised" /\ rexc = "BadZipFile"
    ELSE IF ~HasTex(a) THEN rpc = "raised" /\ rexc = "AssertionError"
    ELSE latex = TexOf(a) /\ rexc # "AssertionError"

\* parse_result stopped at the hash check
C29_Rejected ==
    /\ rpc = "raised"
    /\ rexc = "AssertionError"
    /\ latex = <<>>
    /\ chunks = <<>>
    /\ calls = <<>>
    /\ pdf_result.content = None

(***************************************************************************)
(* C29: archive integrity round trip. The pair (zip_b64, zip_hash) stored   *)
(* by await_result for downloaded bytes passes the integrity check of       *)
(* parse_result: decoding zip_b64 gives the bytes and their hash is         *)
(* zip_hash. A result whose zip_b64 was altered after the download, its     *)
(* decoded bytes no longer matching zip_hash, is rejected by parse_result   *)
(* before the archive is opened or any chunk converted.                     *)
(***************************************************************************)
C29_IntegrityRoundTrip ==
    /\ [][downloads' = downloads + 1
            => \/ apc' = "raised" /\ mr' = mr
               \/ \E a \in Bodies : /\ mr'.zip_b64 = B64Encode(a)
                                    /\ mr'.zip_hash = Sha256(a)
                                    /\ B64Decode(mr'.zip_b64) = a
                                    /\ Sha256(B64Decode(mr'.zip_b64)) = mr'.zip_hash]_vars
    /\ [](ArchiveChecked
            => \A a \in Bodies, b \in Bodies :
                 Holds(b, a) => IF a = b THEN C29_Passed(a) ELSE C29_Rejected)

\* C29 witness: the stored archive came back as another, valid, archive and
\* parse_result rejected it
C29_Witness ==
    /\ ArchiveChecked
    /\ Holds("zip_b", "zip_a")
    /\ C29_Rejected

IsTextChunk(c) == c.type = "text"
IsTableChunk(c) == c.type = "table"
IsImageChunk(c) == c.type = "image"

\* parse_result went through its loop and returned, or is about to
C30_Inv ==
    rpc \in {"joined", "done"}
    => /\ \A k \in 1..Len(chunks) :
            /\ chunks[k].processed_content # NoStr
            /\ chunks[k].type = "text"
                 => chunks[k].processed_content = Str(chunks[k].raw_content)
       /\ pdf_result.text = SelectSeq(chunks, IsTextChunk)
       /\ pdf_result.tables = SelectSeq(chunks, IsTableChunk)
       /\ pdf_result.images = SelectSeq(chunks, IsImageChunk)
       /\ Len(pdf_result.text) + Len(pdf_result.tables) + Len(pdf_result.images)
            = Len(chunks)

C31_NonOkDownloadIsError ==
    /\ mr.zip_b64 # B64Encode("not_ok_body")
    /\ mr.zip_hash # Sha256("not_ok_body")
    /\ rexc = "BadZipFile" => B64Decode(mr.zip_b64) = "junk"

\* parse_result made its conversions with the mocked answers and joined the
\* text, and pdf_to_txt built its string for the same archive
BothReassembled ==
    /\ rpc \in {"joined", "done"}
    /\ processed_latex_string # NoStr \/ latex = <<>>

\* the chunks of parse_result and the pieces of pdf_to_txt have the same
\* boundaries, types and order
SameBoundaries ==
    LET ps == text_pieces(latex)
    IN /\ Len(ps) = Len(chunks)
       /\ \A k \in 1..Len(ps) : /\ ps[k].start = chunks[k].start
                                /\ ps[k].start + ps[k].length = chunks[k].end
                                /\ ps[k].type = chunks[k].type
                                /\ ps[k].filename = chunks[k].filename

\* C32, the half that holds: same chunk boundaries, same order
C32_SameBoundaries == BothReassembled => SameBoundaries

(***************************************************************************)
(* C32: the two pipeline variants agree on reassembly: for the same         *)
(* archive and the same table and image conversion answers, pdf_to_txt and  *)
(* parse_result build the same pre-cleanup text (same chunk boundaries,     *)
(* same delimiters around converted chunks, same order).                    *)
(***************************************************************************)
C32_VariantsAgree ==
    BothReassembled => (SameBoundaries /\ latex_str = processed_latex_string)

\* call i of the history returned a job identifier
ReturnedId(i) == log[i].status = "returned" /\ log[i].id # None

(***************************************************************************)
(* C33: whatever the interleaving of the workers' get_mathpix_pdf_id calls  *)
(* on files of the same content hash, all calls that return a job           *)
(* identifier return the same one, and it is the one the cache holds for    *)
(* the hash: no worker goes on with an identifier other than the cached.    *)
(***************************************************************************)
C33_ReturnedIdIsTheCachedOne ==
    /\ \A i \in 1..Len(log), j \in 1..Len(log) :
         (ReturnedId(i) /\ ReturnedId(j) /\ log[i].md5 = log[j].md5)
         => log[i].id = log[j].id
    /\ \A i \in 1..Len(log) :
         ReturnedId(i)
         => /\ \E r \in db : r.md5 = log[i].md5
            /\ \A r \in db : r.md5 = log[i].md5 => r.mathpix_pdf_id = log[i].id
    /\ \A w \in Workers :
         (pc[w] = "returned" /\ ret[w] # None)
         => \E r \in db : /\ r.md5 = _calculate_md5(content[task[w]])
                          /\ r.mathpix_pdf_id = ret[w]

\* C33 witness: two workers raced on one content and both submitted it; one
\* wrote the entry and returned its identifier, the other was refused, and a
\* third call returned the cached identifier
C33_Witness ==
    \E i \in 1..Len(log), j \in 1..Len(log), k \in 1..Len(log) :
        /\ log[i].md5 = log[j].md5 /\ log[j].md5 = log[k].md5
        /\ posts[log[i].md5] >= 2
        /\ ReturnedId(i) /\ ~log[i].hit
        /\ log[j].exc = "IntegrityError" /\ log[j].begun < i
        /\ ReturnedId(k) /\ log[k].hit /\ log[k].id = log[i].id

====
